---------------------------- MODULE Spec2Model ----------------------------
(***************************************************************************)
(* Limit order book matching engine.                                       *)
(*                                                                         *)
(* Two order books live in the repository and both are modelled here:      *)
(*   - orderbook::OrderBook  (src/src/orderbook/book.rs), the concurrent   *)
(*     book behind MatchingEngine: variables bids, asks, orders, sequence; *)
(*   - engine::OrderBook     (src/src/engine.rs), the book behind          *)
(*     TradingEngine: variables engine_bids, engine_asks, engine_orders.   *)
(* Around them: MatchingEngine as a lone caller sees it (DispatcherSpec)    *)
(* and its two channels under concurrent callers (ChannelSpec), one        *)
(* trading_service.rs Position (PositionSpec), TradingService and its      *)
(* report channel (TradingSpec, PaperTradingSpec), PortfolioService as a    *)
(* handler of reports and market events (PortfolioSpec) and as a running   *)
(* service with accounts (PortfolioServiceSpec), start() and stop() of the *)
(* services (LifecycleSpec), OrderId::new (OrderIdSpec), LatencyTracker    *)
(* (LatencySpec) and the books by symbol (SymbolSpec); the worker's turn    *)
(* in its two steps (SerialSpec), two threads calling one shared book.rs   *)
(* book (SharedBookSpec) and the Order of types/order.rs (OrderSpec).      *)
(*                                                                         *)
(* Decimal values are integers.  A quantity q stands for itself.  A price  *)
(* is counted in units fine enough that the rounding error of a Decimal -> *)
(* f64 conversion is one unit: 10000 is 100.0, 10010 is 100.1 and 10020 is *)
(* 100.2.  Option<T> is a sequence: <<>> is None and <<x>> is Some(x).     *)
(***************************************************************************)
EXTENDS Integers, Sequences, FiniteSets, TLC

\* ------------------------------------------------------------------ bounds
MaxOrders == 3
MaxEngineOrders == 4
\* calls each concurrent caller of MatchingEngine makes
MaxCalls == 2
\* fills applied to one Position
MaxFills == 3
\* execution reports PortfolioService takes from its channel
MaxExecutions == 2
\* orders submitted to TradingService
MaxTradingOrders == 2
\* market events PortfolioService takes from its channel
MaxMarks == 2
\* OrderId::new calls made by all threads together
MaxIds == 6
\* orders submitted at the two engine entry points together
MaxSymbolOrders == 3
\* the largest capacity a LatencyTracker is created with, and record_latency calls
MaxCapacity == 3
MaxRecords == 4
\* Order::fill calls made on one types/order.rs Order
MaxOrderFills == 3
\* start() calls each caller makes, and stop() calls made on each service
MaxStarts == 1
MaxStops == 1

\* Prices clients submit: 100.0 (exact in binary), 100.1 and 100.2 (not exact).
Prices == {10000, 10010, 10020}
\* Quantities clients submit: enough for a partial fill
Quantities == {1, 2}
Sides == {"Buy", "Sell"}

None == <<>>
Some(x) == <<x>>
is_some(opt) == Len(opt) = 1
unwrap(opt) == opt[1]

Min(a, b) == IF a <= b THEN a ELSE b

SetMin(S) == CHOOSE x \in S : \A y \in S : x <= y
SetMax(S) == CHOOSE x \in S : \A y \in S : x >= y

VARIABLES
    bids,           \* book.rs OrderBook.bids : f64 key -> PriceLevel
    asks,           \* book.rs OrderBook.asks : f64 key -> PriceLevel
    orders,         \* book.rs OrderBook.orders : OrderId -> Order
    sequence,       \* book.rs OrderBook.sequence
    next_order_id,  \* OrderId::new COUNTER
    last_call,      \* the last add_order / cancel_order call and what it returned
    reported,       \* OrderId -> sum of last_quantity over the reports emitted for it
    maker_matched,  \* OrderId -> sum of the match quantities taken against it as maker
    thread_pc,      \* thread -> how far its call on the shared book.rs book has come
    thread_call,    \* thread -> its call on the shared book: arguments, locals, result
    engine_bids,    \* engine.rs OrderBook.bids : Decimal -> PriceLevel
    engine_asks,    \* engine.rs OrderBook.asks
    engine_orders,  \* engine.rs OrderBook.orders
    engine_next_id, \* OrderId::new COUNTER as seen by the engine.rs book
    overflow_checks,\* build profile: TRUE = arithmetic overflow panics, FALSE = wraps
    engine_call,    \* the last engine.rs add_order call and what it returned
    dispatch,       \* the last MatchingEngine call of a lone caller and what it returned
    priceless_limit_matches,
                    \* what Order::can_match answers for a Limit order without a price
    message_channel,  \* matching.rs msg_tx/msg_rx: MatchingMessages sent, not yet received
    response_channel, \* matching.rs resp_tx/resp_rx: MatchingResponses sent, not yet received
    worker_running,   \* run_matching_loop has been polled: it holds a runtime thread
    runtime_threads,  \* threads of the async runtime that can run a task
    caller_pc,        \* caller -> "idle" | "waiting" (blocked in response_receiver.recv())
    calls_made,       \* caller -> calls started so far
    request,          \* caller -> the message of its current (or last) call
    received,         \* caller -> the response its last call received, if it has returned
    enqueued,         \* every message sent on msg_tx, in the order the channel took them
    processing,       \* worker task -> the message it has received and not yet answered
    applied,          \* every message a worker has processed, in the order it was done
    position,         \* trading_service.rs: one Position
    fills_applied,    \* update_from_fill calls made on it
    fill_call,        \* the last update_from_fill call and the position it started from
    portfolio,        \* portfolio_service.rs: the "default" Portfolio, one symbol
    executions_taken, \* execution reports execution_reports_loop has received
    execution_call,   \* the last report it received and the portfolio it started from
    marks_taken,      \* market events market_data_loop has received
    market_call,      \* the last market event received since the last report, if any
    trading_orders,     \* trading_service.rs TradingService.orders : OrderId -> Order
    trading_position,   \* TradingService.positions[symbol], None until the first fill
    trading_trades,     \* TradingService.trades
    current_price,      \* TradingService.current_prices[symbol], None until a market event
    order_updates,      \* the channel behind order_updates_tx: reports sent, not yet received
    order_updates_capacity, \* None: unbounded(); Some(n): bounded(n)
    trading_next_id,    \* OrderId::new COUNTER as seen by the trading service
    reports_returned,   \* every report submit_order / cancel_order has produced, in order
    reports_consumed,   \* every report the receiver has taken from the channel, in order
    trading_call,       \* the last submit_order / cancel_order call and what it returned
    is_running,         \* service -> its is_running AtomicBool
    tasks_spawned,      \* service -> background tasks its start() calls have spawned
    start_pc,           \* caller -> "idle" | "spawning" (between compare_exchange and spawn)
    start_call,         \* caller -> its current (or last) start() call
    starts_made,        \* caller -> start() calls begun
    starts_won,         \* service -> start() calls whose compare_exchange succeeded
    stops_made,         \* service -> stop() calls made
    portfolios,         \* PortfolioService.portfolios : account id -> Portfolio
    accounts_created,   \* accounts for which create_portfolio returned Ok
    execution_reports_rx, \* the channel of execution reports: sent, not yet received
    reports_sent,       \* every report sent on it, with the service's state at that time
    position_updates,   \* position_updates_tx: PositionUpdates sent by the service
    loops_alive,        \* execution_reports_loop tasks that have not returned
    COUNTER,            \* OrderId::new's static COUNTER, for the threads of OrderIdSpec
    ids_minted,         \* thread -> the ids OrderId::new has returned to it, in order
    samples,            \* LatencyTracker.samples
    max_samples,        \* LatencyTracker.max_samples
    records_made,       \* record_latency calls made
    distribution,       \* the last get_distribution result and the samples it was taken of
    orderbooks,         \* matching.rs MatchingEngine.orderbooks : Symbol -> book
    order_books,        \* engine.rs TradingEngine.order_books : symbol -> book
    total_orders,       \* engine.rs TradingEngine.total_orders
    symbol_next_id,     \* OrderId::new COUNTER as seen at the two entry points
    symbol_call,        \* the last call at an entry point and what it returned
    typed_order,        \* types/order.rs: one Order, None until it is built
    order_fills_made,   \* Order::fill calls made on it
    order_fill_call     \* the last Order::fill call and the order it started from

book_vars == <<bids, asks, orders, sequence, next_order_id, last_call, reported, maker_matched,
               thread_pc, thread_call>>
engine_vars == <<engine_bids, engine_asks, engine_orders, engine_next_id, overflow_checks, engine_call>>
dispatcher_vars == <<dispatch, priceless_limit_matches>>
\* everything that is neither of the two order books
channel_vars == <<message_channel, response_channel, worker_running, runtime_threads,
                  caller_pc, calls_made, request, received, enqueued, processing, applied>>
position_vars == <<position, fills_applied, fill_call>>
portfolio_vars == <<portfolio, executions_taken, execution_call, marks_taken, market_call>>
trading_vars == <<trading_orders, trading_position, trading_trades, current_price,
                  order_updates, order_updates_capacity, trading_next_id,
                  reports_returned, reports_consumed, trading_call>>
lifecycle_vars == <<is_running, tasks_spawned, start_pc, start_call, starts_made, starts_won,
                    stops_made>>
account_vars == <<portfolios, accounts_created, execution_reports_rx, reports_sent,
                  position_updates, loops_alive>>
\* the services as running processes, and the utilities
order_id_vars == <<COUNTER, ids_minted>>
latency_vars == <<samples, max_samples, records_made, distribution>>
symbol_vars == <<orderbooks, order_books, total_orders, symbol_next_id, symbol_call>>
order_vars == <<typed_order, order_fills_made, order_fill_call>>
utility_vars == <<order_id_vars, latency_vars, symbol_vars, order_vars>>
system_vars == <<lifecycle_vars, account_vars, utility_vars>>
component_vars == <<dispatcher_vars, channel_vars, position_vars, portfolio_vars, trading_vars,
                    system_vars>>
vars == <<book_vars, engine_vars, component_vars>>

\* ------------------------------------------------------------------ Order
\* Order::new(client_id, symbol, side, order_type, quantity, price)
Order_new(id, side, order_type, quantity, price) ==
    [id |-> id, side |-> side, order_type |-> order_type, quantity |-> quantity,
     price |-> price, filled_quantity |-> 0, status |-> "Pending"]

remaining_quantity(order) == order.quantity - order.filled_quantity

is_fully_filled(order) == order.filled_quantity >= order.quantity

\* types/order.rs can_match: a market order matches any price
can_match(order, market_price) ==
    CASE order.order_type = "Market" -> TRUE
      [] order.order_type = "Limit" /\ ~is_some(order.price) -> priceless_limit_matches
      [] order.order_type = "Limit" /\ is_some(order.price) /\ order.side = "Buy" ->
            unwrap(order.price) >= market_price
      [] order.order_type = "Limit" /\ is_some(order.price) /\ order.side = "Sell" ->
            unwrap(order.price) <= market_price

\* ------------------------------------------------------------------ Decimal <-> f64
\* The nearest f64 of a price: 100.0 is exact, 100.1 is
\* 100.09999999999999431..., 100.2 is 100.20000000000000284...
F64Error(price) ==
    CASE price % 50 = 0 -> 0
      [] price = 10010 -> -1
      [] price = 10020 -> 1
      [] OTHER -> 0

\* price.to_f64().unwrap_or(0.0)
to_f64(price) == price + F64Error(price)

\* Decimal::from_f64_retain(key).unwrap_or(Decimal::ZERO): keeps the excess bits
from_f64_retain(key) == key

\* ------------------------------------------------------------------ PriceLevel (engine.rs)
PriceLevel_new(price) ==
    [price |-> price, quantity |-> 0, order_count |-> 0, orders |-> <<>>]

\* a slip PriceLevel::add_order could make: `=` for `+=` on the quantity
PriceLevel_add_order_assigning(level, order) ==
    [level EXCEPT !.quantity = remaining_quantity(order),
                  !.order_count = @ + 1,
                  !.orders = Append(@, order)]

PriceLevel_add_order(level, order) ==
    [level EXCEPT !.quantity = @ + remaining_quantity(order),
                  !.order_count = @ + 1,
                  !.orders = Append(@, order)]

Position(level_orders, order_id) ==
    IF \E i \in 1..Len(level_orders) : level_orders[i].id = order_id
    THEN SetMin({i \in 1..Len(level_orders) : level_orders[i].id = order_id})
    ELSE 0

RemoveAt(s, pos) == SubSeq(s, 1, pos - 1) \o SubSeq(s, pos + 1, Len(s))

PriceLevel_remove_order(level, order_id) ==
    LET pos == Position(level.orders, order_id)
    IN IF pos > 0
       THEN [level EXCEPT !.quantity = @ - remaining_quantity(level.orders[pos]),
                          !.order_count = @ - 1,
                          !.orders = RemoveAt(@, pos)]
       ELSE level

PriceLevel_is_empty(level) == level.orders = <<>>

\* ------------------------------------------------------------------ book.rs
get_best_bid_price == IF DOMAIN bids = {} THEN None ELSE Some(SetMax(DOMAIN bids))
get_best_ask_price == IF DOMAIN asks = {} THEN None ELSE Some(SetMin(DOMAIN asks))

get_order(order_id) == IF order_id \in DOMAIN orders THEN Some(orders[order_id]) ELSE None

MatchResult_new(maker_order_id, taker_order_id, price, quantity, maker_side) ==
    [maker_order_id |-> maker_order_id, taker_order_id |-> taker_order_id,
     price |-> price, quantity |-> quantity, maker_side |-> maker_side,
     taker_side |-> IF maker_side = "Buy" THEN "Sell" ELSE "Buy"]

RECURSIVE MatchQuantities(_)
MatchQuantities(matches) ==
    IF matches = <<>> THEN 0 ELSE Head(matches).quantity + MatchQuantities(Tail(matches))

\* the inner loop of find_matches over one level's queue
RECURSIVE find_matches_in_level(_, _, _, _)
find_matches_in_level(incoming_order, level_orders, price_decimal, remaining) ==
    IF level_orders = <<>> \/ remaining <= 0 THEN <<>>
    ELSE LET resting == Head(level_orders)
             match_quantity == Min(remaining, remaining_quantity(resting))
             maker_side == IF incoming_order.side = "Buy" THEN "Sell" ELSE "Buy"
         IN IF match_quantity > 0
            THEN <<MatchResult_new(resting.id, incoming_order.id, price_decimal,
                                   match_quantity, maker_side)>>
                 \o find_matches_in_level(incoming_order, Tail(level_orders),
                                          price_decimal, remaining - match_quantity)
            ELSE find_matches_in_level(incoming_order, Tail(level_orders),
                                       price_decimal, remaining)

\* the outer loop of find_matches over the opposite side, best price first
RECURSIVE find_matches_from(_, _, _, _)
find_matches_from(incoming_order, side_book, keys, remaining) ==
    IF keys = {} \/ remaining <= 0 THEN <<>>
    ELSE LET key == IF incoming_order.side = "Buy" THEN SetMin(keys) ELSE SetMax(keys)
             price_decimal == from_f64_retain(key)
         IN IF can_match(incoming_order, price_decimal)
            THEN LET here == find_matches_in_level(incoming_order, side_book[key].orders,
                                                   price_decimal, remaining)
                 IN here \o find_matches_from(incoming_order, side_book, keys \ {key},
                                              remaining - MatchQuantities(here))
            ELSE <<>>

find_matches(incoming_order) ==
    LET side_book == IF incoming_order.side = "Buy" THEN asks ELSE bids
    IN find_matches_from(incoming_order, side_book, DOMAIN side_book,
                         remaining_quantity(incoming_order))

create_execution_report(match_result, exec_type) ==
    [order_id |-> match_result.taker_order_id,
     side |-> match_result.taker_side,
     execution_type |-> exec_type,
     order_status |-> "PartiallyFilled",
     price |-> Some(match_result.price),
     quantity |-> match_result.quantity,
     cumulative_quantity |-> match_result.quantity,
     leaves_quantity |-> 0,
     last_price |-> Some(match_result.price),
     last_quantity |-> Some(match_result.quantity)]

\* the New report add_order builds for the order it rests
new_order_report(order) ==
    [order_id |-> order.id,
     side |-> order.side,
     execution_type |-> "New",
     order_status |-> "Pending",
     price |-> order.price,
     quantity |-> remaining_quantity(order),
     cumulative_quantity |-> order.filled_quantity,
     leaves_quantity |-> remaining_quantity(order),
     last_price |-> None,
     last_quantity |-> None]

\* the Canceled report cancel_order builds
cancel_report(order) ==
    [order_id |-> order.id,
     side |-> order.side,
     execution_type |-> "Canceled",
     order_status |-> "Cancelled",
     price |-> order.price,
     quantity |-> remaining_quantity(order),
     cumulative_quantity |-> order.filled_quantity,
     leaves_quantity |-> 0,
     last_price |-> None,
     last_quantity |-> None]

\* a map with one more (or one replaced) entry
MapPut(map, key, value) ==
    [k \in DOMAIN map \cup {key} |-> IF k = key THEN value ELSE map[k]]

MapRemove(map, key) == [k \in DOMAIN map \ {key} |-> map[k]]

\* add_order_to_price_level, on one side map
add_order_to_price_level(side_book, order) ==
    IF is_some(order.price)
    THEN LET price == unwrap(order.price)
             price_key == to_f64(price)
             level == IF price_key \in DOMAIN side_book THEN side_book[price_key]
                      ELSE PriceLevel_new(price)
         IN MapPut(side_book, price_key, PriceLevel_add_order(level, order))
    ELSE side_book

\* a slip remove_order_from_price_level could make: leaving the emptied level
\* in the map
remove_order_keeping_level(side_book, order) ==
    IF is_some(order.price)
    THEN LET price_key == to_f64(unwrap(order.price))
         IN IF price_key \in DOMAIN side_book
            THEN MapPut(side_book, price_key,
                        PriceLevel_remove_order(side_book[price_key], order.id))
            ELSE side_book
    ELSE side_book

\* remove_order_from_price_level, on one side map
remove_order_from_price_level(side_book, order) ==
    IF is_some(order.price)
    THEN LET price_key == to_f64(unwrap(order.price))
         IN IF price_key \in DOMAIN side_book
            THEN LET level == PriceLevel_remove_order(side_book[price_key], order.id)
                 IN IF PriceLevel_is_empty(level)
                    THEN MapRemove(side_book, price_key)
                    ELSE MapPut(side_book, price_key, level)
            ELSE side_book
    ELSE side_book

\* last_quantity of the reports of one call, summed per order id
RECURSIVE ReportedBy(_, _)
ReportedBy(reports, order_id) ==
    IF reports = <<>> THEN 0
    ELSE (IF Head(reports).order_id = order_id /\ is_some(Head(reports).last_quantity)
          THEN unwrap(Head(reports).last_quantity) ELSE 0)
         + ReportedBy(Tail(reports), order_id)

RECURSIVE MatchedAgainst(_, _)
MatchedAgainst(matches, order_id) ==
    IF matches = <<>> THEN 0
    ELSE (IF Head(matches).maker_order_id = order_id THEN Head(matches).quantity ELSE 0)
         + MatchedAgainst(Tail(matches), order_id)

OrderIds == 1..MaxOrders

Snapshot == [bids |-> bids, asks |-> asks, orders |-> orders]

NoCall == [op |-> "none", order_id |-> 0, order |-> <<>>, reports |-> <<>>,
           matches |-> <<>>, before |-> <<>>, round_trip_of |-> <<>>]

\* OrderBook::add_order
add_order(order) ==
    LET best == IF order.side = "Buy" THEN get_best_ask_price ELSE get_best_bid_price
        can_match_immediately ==
            IF is_some(best) THEN can_match(order, from_f64_retain(unwrap(best))) ELSE FALSE
        matches == IF can_match_immediately THEN find_matches(order) ELSE <<>>
        fill_reports == [i \in 1..Len(matches) |-> create_execution_report(matches[i], "Fill")]
        \* order_arc holds a clone of the incoming order; find_matches never writes to it
        remaining_order == order
        rests == ~is_fully_filled(remaining_order)
        execution_reports ==
            IF rests THEN Append(fill_reports, new_order_report(remaining_order))
            ELSE fill_reports
    IN /\ orders' = IF rests THEN MapPut(orders, order.id, remaining_order) ELSE orders
       /\ bids' = IF rests /\ order.side = "Buy"
                  THEN add_order_to_price_level(bids, remaining_order) ELSE bids
       /\ asks' = IF rests /\ order.side = "Sell"
                  THEN add_order_to_price_level(asks, remaining_order) ELSE asks
       /\ sequence' = sequence + 1
       /\ reported' = [id \in OrderIds |-> reported[id] + ReportedBy(execution_reports, id)]
       /\ maker_matched' = [id \in OrderIds |-> maker_matched[id] + MatchedAgainst(matches, id)]
       /\ last_call' = [op |-> "add_order", order_id |-> order.id, order |-> Some(order),
                        reports |-> execution_reports, matches |-> matches,
                        before |-> Some(Snapshot), round_trip_of |-> None]
       /\ UNCHANGED <<thread_pc, thread_call>>

\* OrderBook::cancel_order
cancel_order(order_id) ==
    LET found == order_id \in DOMAIN orders
        order == orders[order_id]
        live == found /\ order.status \in {"Pending", "PartiallyFilled"}
        report == IF live THEN Some(cancel_report([order EXCEPT !.status = "Cancelled"]))
                  ELSE None
        \* the book as it was before the add_order call this cancel undoes, if the
        \* call before this one was the add_order of this very order
        undone == IF last_call.op = "add_order" /\ last_call.order_id = order_id
                  THEN [before |-> unwrap(last_call.before),
                        order |-> unwrap(last_call.order),
                        matches |-> last_call.matches]
                  ELSE <<>>
    IN /\ orders' = IF found THEN MapRemove(orders, order_id) ELSE orders
       /\ bids' = IF live /\ order.side = "Buy"
                  THEN remove_order_from_price_level(bids, order) ELSE bids
       /\ asks' = IF live /\ order.side = "Sell"
                  THEN remove_order_from_price_level(asks, order) ELSE asks
       /\ UNCHANGED <<sequence, reported, maker_matched>>
       /\ last_call' = [op |-> "cancel_order", order_id |-> order_id, order |-> None,
                        reports |-> report, matches |-> <<>>,
                        before |-> None,
                        round_trip_of |-> IF undone = <<>> THEN None ELSE Some(undone)]
       /\ UNCHANGED <<thread_pc, thread_call>>

\* ------------------------------------------------------------------ actions (book.rs)
\* a client builds a limit order (Order::new mints the id) and the book adds it
AddLimitOrder ==
    /\ next_order_id <= MaxOrders
    /\ \E side \in Sides, price \in Prices, quantity \in Quantities :
         add_order(Order_new(next_order_id, side, "Limit", quantity, Some(price)))
    /\ next_order_id' = next_order_id + 1
    /\ UNCHANGED <<engine_vars, component_vars>>

\* a client builds a market order (no price) and the book adds it
AddMarketOrder ==
    /\ next_order_id <= MaxOrders
    /\ \E side \in Sides, quantity \in Quantities :
         add_order(Order_new(next_order_id, side, "Market", quantity, None))
    /\ next_order_id' = next_order_id + 1
    /\ UNCHANGED <<engine_vars, component_vars>>

\* a client cancels an order id it was given (known to the book or not)
CancelOrder ==
    /\ \E order_id \in 1..(next_order_id - 1) : cancel_order(order_id)
    /\ UNCHANGED next_order_id
    /\ UNCHANGED <<engine_vars, component_vars>>

\* ------------------------------------------------------------------ book.rs, shared
\* Threads that hold the same Arc<OrderBook> (get_orderbook hands it out) and call
\* add_order and cancel_order on it at the same time.  Both methods take &self and
\* take each lock for one statement only: bids, asks (RwLock) and orders (DashMap)
\* are read and written in separate steps, and another thread can run in between.
BookThreads == {1, 2}

NoThreadCall == [op |-> "none", order |-> None, order_id |-> 0, can_match_immediately |-> FALSE,
                 matches |-> <<>>, removed |-> None, reports |-> <<>>]

\* add_order, first statement: the best opposite price is read and compared
AddOrderCheck(t) ==
    /\ thread_pc[t] = "idle"
    /\ \E side \in Sides, price \in Prices, quantity \in Quantities :
         LET order == Order_new(t, side, "Limit", quantity, Some(price))
             best == IF side = "Buy" THEN get_best_ask_price ELSE get_best_bid_price
         IN thread_call' = [thread_call EXCEPT ![t] =
               [NoThreadCall EXCEPT !.op = "add_order", !.order = Some(order), !.order_id = t,
                   !.can_match_immediately =
                       IF is_some(best) THEN can_match(order, from_f64_retain(unwrap(best)))
                       ELSE FALSE]]
    /\ thread_pc' = [thread_pc EXCEPT ![t] = "checked"]
    /\ UNCHANGED <<bids, asks, orders, sequence, next_order_id, last_call, reported, maker_matched>>
    /\ UNCHANGED <<engine_vars, component_vars>>

\* add_order: find_matches, if the check said so, on the book as it is by now
AddOrderFindMatches(t) ==
    /\ thread_pc[t] = "checked"
    /\ thread_call' = [thread_call EXCEPT ![t].matches =
                          IF thread_call[t].can_match_immediately
                          THEN find_matches(unwrap(thread_call[t].order)) ELSE <<>>]
    /\ thread_pc' = [thread_pc EXCEPT ![t] = "matched"]
    /\ UNCHANGED <<bids, asks, orders, sequence, next_order_id, last_call, reported, maker_matched>>
    /\ UNCHANGED <<engine_vars, component_vars>>

\* add_order: self.orders.insert (the order is not fully filled: nothing filled it)
AddOrderInsert(t) ==
    /\ thread_pc[t] = "matched"
    /\ orders' = MapPut(orders, t, unwrap(thread_call[t].order))
    /\ thread_pc' = [thread_pc EXCEPT ![t] = "inserted"]
    /\ UNCHANGED <<bids, asks, sequence, next_order_id, last_call, reported, maker_matched,
                   thread_call>>
    /\ UNCHANGED <<engine_vars, component_vars>>

\* add_order: add_order_to_price_level, the New report, the sequence; it returns
AddOrderToPriceLevel(t) ==
    /\ thread_pc[t] = "inserted"
    /\ LET order == unwrap(thread_call[t].order)
           matches == thread_call[t].matches
           fill_reports == [i \in 1..Len(matches) |->
                               create_execution_report(matches[i], "Fill")]
       IN /\ bids' = IF order.side = "Buy" THEN add_order_to_price_level(bids, order) ELSE bids
          /\ asks' = IF order.side = "Sell" THEN add_order_to_price_level(asks, order) ELSE asks
          /\ thread_call' = [thread_call EXCEPT ![t].reports =
                                Append(fill_reports, new_order_report(order))]
    /\ sequence' = sequence + 1
    /\ thread_pc' = [thread_pc EXCEPT ![t] = "done"]
    /\ UNCHANGED <<orders, next_order_id, last_call, reported, maker_matched>>
    /\ UNCHANGED <<engine_vars, component_vars>>

\* cancel_order, first statement: self.orders.remove; Ok(None) if it is not there
CancelOrderRemove(t) ==
    /\ thread_pc[t] = "idle"
    /\ \E order_id \in BookThreads :
         /\ thread_call' = [thread_call EXCEPT ![t] =
               [NoThreadCall EXCEPT !.op = "cancel_order", !.order_id = order_id,
                                    !.removed = get_order(order_id)]]
         /\ orders' = IF order_id \in DOMAIN orders THEN MapRemove(orders, order_id) ELSE orders
         /\ thread_pc' = [thread_pc EXCEPT ![t] =
                             IF order_id \in DOMAIN orders THEN "removed" ELSE "done"]
    /\ UNCHANGED <<bids, asks, sequence, next_order_id, last_call, reported, maker_matched>>
    /\ UNCHANGED <<engine_vars, component_vars>>

\* the read guard add_order holds on the order it has inserted, until it returns
OrderReadLocked(order_id) ==
    \E t \in BookThreads :
        /\ thread_pc[t] = "inserted"
        /\ thread_call[t].op = "add_order"
        /\ thread_call[t].order_id = order_id

\* cancel_order: order_arc.write() once no reader holds the order, then
\* remove_order_from_price_level and the Canceled report; it returns
CancelOrderFromPriceLevel(t) ==
    /\ thread_pc[t] = "removed"
    /\ ~OrderReadLocked(thread_call[t].order_id)
    /\ LET order == unwrap(thread_call[t].removed)
       IN /\ bids' = IF order.side = "Buy" THEN remove_order_from_price_level(bids, order)
                     ELSE bids
          /\ asks' = IF order.side = "Sell" THEN remove_order_from_price_level(asks, order)
                     ELSE asks
          /\ thread_call' = [thread_call EXCEPT ![t].reports =
                                <<cancel_report([order EXCEPT !.status = "Cancelled"])>>]
    /\ thread_pc' = [thread_pc EXCEPT ![t] = "done"]
    /\ UNCHANGED <<orders, sequence, next_order_id, last_call, reported, maker_matched>>
    /\ UNCHANGED <<engine_vars, component_vars>>

\* ------------------------------------------------------------------ matching.rs
\* MatchingEngine as one caller sees it when no other caller is active: the
\* message it sends is the only one in the channel and the response it
\* receives is the one the worker built for it.

\* quantities a client can put in an order that the spec calls invalid
InvalidQuantities == {0, -1}

\* MatchingEngine::process_new_order: the (auto-created) book adds the order;
\* add_order has no Err path, so the response is always ExecutionReports
process_new_order(order) ==
    /\ add_order(order)
    /\ dispatch' = [op |-> "submit_order", order_id |-> order.id, order |-> Some(order),
                    response |-> "ExecutionReports",
                    \* MatchingEngine::submit_order: Ok(reports)
                    ok |-> TRUE, value |-> last_call'.reports,
                    before |-> Some(Snapshot)]

\* MatchingEngine::process_cancel_order and what MatchingEngine::cancel_order
\* makes of the response: ExecutionReports(reports) -> Ok(reports.next()),
\* Error(err) -> Err(Internal(err))
process_cancel_order(order_id) ==
    IF is_some(get_order(order_id))
    THEN /\ cancel_order(order_id)
         /\ dispatch' = [op |-> "cancel_order", order_id |-> order_id, order |-> get_order(order_id),
                         response |-> IF is_some(last_call'.reports)
                                      THEN "ExecutionReports" ELSE "Error",
                         ok |-> is_some(last_call'.reports),
                         value |-> last_call'.reports,
                         before |-> Some(Snapshot)]
    ELSE /\ UNCHANGED <<bids, asks, orders, sequence, last_call, reported, maker_matched,
                        thread_pc, thread_call>>
         /\ dispatch' = [op |-> "cancel_order", order_id |-> order_id, order |-> None,
                         response |-> "Error", ok |-> FALSE, value |-> None,
                         before |-> Some(Snapshot)]

\* ------------------------------------------------------------------ actions (matching.rs)
\* a client builds an order, valid or not, and submits it
SubmitOrder ==
    /\ next_order_id <= MaxOrders
    /\ sequence < MaxOrders
    /\ \E side \in Sides :
         \/ \E price \in Prices, quantity \in Quantities \cup InvalidQuantities :
               process_new_order(Order_new(next_order_id, side, "Limit", quantity, Some(price)))
         \/ \E quantity \in Quantities :
               \/ process_new_order(Order_new(next_order_id, side, "Market", quantity, None))
               \/ process_new_order(Order_new(next_order_id, side, "Limit", quantity, None))
    /\ next_order_id' = next_order_id + 1
    /\ UNCHANGED <<system_vars, engine_vars, priceless_limit_matches, channel_vars, position_vars,
                   portfolio_vars, trading_vars>>

\* a client submits again an order that is in the book (the same OrderId)
SubmitDuplicateOrder ==
    /\ sequence < MaxOrders
    /\ \E order_id \in DOMAIN orders : process_new_order(orders[order_id])
    /\ UNCHANGED next_order_id
    /\ UNCHANGED <<system_vars, engine_vars, priceless_limit_matches, channel_vars, position_vars,
                   portfolio_vars, trading_vars>>

\* a client cancels an order id, known to any book or not
CancelOrderById ==
    /\ \E order_id \in OrderIds : process_cancel_order(order_id)
    /\ UNCHANGED next_order_id
    /\ UNCHANGED <<system_vars, engine_vars, priceless_limit_matches, channel_vars, position_vars,
                   portfolio_vars, trading_vars>>

\* ------------------------------------------------------------------ matching.rs, the channels
\* Concurrent callers of one MatchingEngine.  Every caller sends on the one
\* message channel and then blocks in recv() on the one response channel; the
\* worker task takes messages in order and sends one response per message.
\* The book behind the worker is left out: a response is known by its kind and
\* by the message it answers.
Callers == {1, 2}

\* worker threads the runtime may have: one (current_thread, #[tokio::test]) or more
RuntimeThreads == {1, 2, 3}

Methods == {"submit_order", "cancel_order", "get_order_status", "get_market_data"}

\* the MatchingMessage each method sends
MatchingMessage(method) ==
    CASE method = "submit_order" -> "NewOrder"
      [] method = "cancel_order" -> "CancelOrder"
      [] method = "get_order_status" -> "GetOrderStatus"
      [] method = "get_market_data" -> "GetMarketData"

\* the kinds of MatchingResponse run_matching_loop can build for a message
MatchingResponses(message) ==
    CASE message = "NewOrder" -> {"ExecutionReports"}
      [] message = "CancelOrder" -> {"ExecutionReports", "Error"}
      [] message = "GetOrderStatus" -> {"OrderStatus"}
      [] message = "GetMarketData" -> {"MarketData", "Error"}

\* what each method returns for the response its recv() got
method_result(method, response) ==
    CASE response = "Error" -> "Err"
      [] method = "submit_order" ->
            IF response = "ExecutionReports" THEN "Ok(reports)" ELSE "Err"
      [] method = "cancel_order" ->
            IF response = "ExecutionReports" THEN "Ok(reports.next())" ELSE "Ok(None)"
      [] method = "get_order_status" ->
            IF response = "OrderStatus" THEN "Ok(order)" ELSE "Ok(None)"
      [] method = "get_market_data" ->
            IF response = "MarketData" THEN "Ok((bids, asks))" ELSE "Err"

\* threads held by a task that is blocked in a crossbeam recv() (which does
\* not yield to the runtime) or, for the worker, that loops on one
threads_busy ==
    Cardinality({c \in Callers : caller_pc[c] = "waiting"}) + (IF worker_running THEN 1 ELSE 0)

\* ------------------------------------------------------------------ actions (matching.rs, the channels)
\* a caller task is polled: it sends its message and blocks in recv()
Call(c) ==
    /\ caller_pc[c] = "idle"
    /\ calls_made[c] < MaxCalls
    /\ threads_busy < runtime_threads
    /\ \E method \in Methods :
         LET message == [from |-> c, call |-> calls_made[c] + 1, method |-> method,
                         message |-> MatchingMessage(method)]
         IN /\ message_channel' = Append(message_channel, message)
            /\ enqueued' = Append(enqueued, message)
            /\ request' = [request EXCEPT ![c] = Some(message)]
    /\ calls_made' = [calls_made EXCEPT ![c] = @ + 1]
    /\ caller_pc' = [caller_pc EXCEPT ![c] = "waiting"]
    /\ received' = [received EXCEPT ![c] = None]
    /\ UNCHANGED <<response_channel, worker_running, runtime_threads, processing, applied>>
    /\ UNCHANGED <<system_vars, book_vars, engine_vars, dispatcher_vars, position_vars, portfolio_vars,
                   trading_vars>>

\* the task tokio::spawn queued in MatchingEngine::new is polled for the first
\* time, on a thread that is free, and enters run_matching_loop
WorkerStart ==
    /\ ~worker_running
    /\ threads_busy < runtime_threads
    /\ worker_running' = TRUE
    /\ UNCHANGED <<message_channel, response_channel, runtime_threads,
                   caller_pc, calls_made, request, received, enqueued, processing, applied>>
    /\ UNCHANGED <<system_vars, book_vars, engine_vars, dispatcher_vars, position_vars, portfolio_vars,
                   trading_vars>>

\* one turn of run_matching_loop: receive a message, process it, send its response
WorkerProcess ==
    /\ worker_running
    /\ message_channel # <<>>
    /\ LET message == Head(message_channel)
       IN \E response \in MatchingResponses(message.message) :
            response_channel' = Append(response_channel,
                                       [to_message |-> message, response |-> response])
    /\ message_channel' = Tail(message_channel)
    /\ applied' = Append(applied, Head(message_channel))
    /\ UNCHANGED <<worker_running, runtime_threads, caller_pc, calls_made, request, received,
                   enqueued, processing>>
    /\ UNCHANGED <<system_vars, book_vars, engine_vars, dispatcher_vars, position_vars, portfolio_vars,
                   trading_vars>>

\* a slip MatchingEngine::new could make: a pool of two tasks on clones of msg_rx
Workers_pool == {1, 2}

\* the tasks MatchingEngine::new spawns on run_matching_loop: one, which owns msg_rx
Workers == {1}

\* one turn of run_matching_loop in its two steps, for a caller that can be
\* scheduled in between: message_receiver.recv() hands the worker the oldest message
RunMatchingLoopRecv(w) ==
    /\ worker_running
    /\ processing[w] = None
    /\ message_channel # <<>>
    /\ processing' = [processing EXCEPT ![w] = Some(Head(message_channel))]
    /\ message_channel' = Tail(message_channel)
    /\ UNCHANGED <<response_channel, worker_running, runtime_threads, caller_pc, calls_made,
                   request, received, enqueued, applied>>
    /\ UNCHANGED <<system_vars, book_vars, engine_vars, dispatcher_vars, position_vars, portfolio_vars,
                   trading_vars>>

\* ... and the worker processes it and sends its response
RunMatchingLoopSend(w) ==
    /\ is_some(processing[w])
    /\ LET message == unwrap(processing[w])
       IN /\ \E response \in MatchingResponses(message.message) :
               response_channel' = Append(response_channel,
                                          [to_message |-> message, response |-> response])
          /\ applied' = Append(applied, message)
    /\ processing' = [processing EXCEPT ![w] = None]
    /\ UNCHANGED <<message_channel, worker_running, runtime_threads, caller_pc, calls_made,
                   request, received, enqueued>>
    /\ UNCHANGED <<system_vars, book_vars, engine_vars, dispatcher_vars, position_vars, portfolio_vars,
                   trading_vars>>

\* a blocked caller's recv() returns the oldest response in the channel,
\* whoever it was built for, and the call returns
Receive(c) ==
    /\ caller_pc[c] = "waiting"
    /\ response_channel # <<>>
    /\ received' = [received EXCEPT ![c] =
                      Some([to_message |-> Head(response_channel).to_message,
                            response |-> Head(response_channel).response,
                            result |-> method_result(unwrap(request[c]).method,
                                                     Head(response_channel).response)])]
    /\ response_channel' = Tail(response_channel)
    /\ caller_pc' = [caller_pc EXCEPT ![c] = "idle"]
    /\ UNCHANGED <<message_channel, worker_running, runtime_threads, calls_made, request,
                   enqueued, processing, applied>>
    /\ UNCHANGED <<system_vars, book_vars, engine_vars, dispatcher_vars, position_vars, portfolio_vars,
                   trading_vars>>

\* ------------------------------------------------------------------ trading_service.rs, Position
\* Decimal arithmetic on integers.  Prices here are whole units (50000 is
\* 50000), and a quotient is kept to the unit.
Abs(x) == IF x < 0 THEN -x ELSE x

signum(x) == IF x > 0 THEN 1 ELSE IF x < 0 THEN -1 ELSE 0

\* Decimal division works on sign and magnitude
Div(a, b) == signum(a) * signum(b) * (Abs(a) \div Abs(b))

\* prices and quantities of the fills applied to a position
FillPrices == {50000, 52000, 53000}
FillQuantities == {1, 2}

Position_new ==
    [quantity |-> 0, average_price |-> 0, unrealized_pnl |-> 0, realized_pnl |-> 0]

\* a slip update_from_fill could make: realizing (price - average) whatever
\* the side, which is right for a long position only
update_from_fill_long_only(pos, side, quantity, price) ==
    LET trade_quantity == IF side = "Buy" THEN quantity ELSE -quantity
    IN IF pos.quantity = 0
       THEN [pos EXCEPT !.quantity = trade_quantity, !.average_price = price]
       ELSE IF (pos.quantity > 0) = (trade_quantity > 0)
       THEN LET total_cost == pos.quantity * pos.average_price + trade_quantity * price
                new_quantity == pos.quantity + trade_quantity
            IN [pos EXCEPT !.quantity = new_quantity,
                           !.average_price = IF new_quantity # 0
                                             THEN Div(total_cost, new_quantity) ELSE @]
       ELSE LET reduction == Min(Abs(trade_quantity), Abs(pos.quantity))
                realized_pnl == (price - pos.average_price) * reduction
                new_quantity == pos.quantity + trade_quantity
            IN [pos EXCEPT !.realized_pnl = @ + realized_pnl,
                           !.quantity = new_quantity,
                           !.average_price =
                               IF new_quantity = 0 THEN 0
                               ELSE IF signum(new_quantity) # signum(new_quantity - trade_quantity)
                               THEN price ELSE @]

\* Position::update_from_fill
update_from_fill(pos, side, quantity, price) ==
    LET trade_quantity == IF side = "Buy" THEN quantity ELSE -quantity
    IN IF pos.quantity = 0
       THEN \* new position
            [pos EXCEPT !.quantity = trade_quantity, !.average_price = price]
       ELSE IF (pos.quantity > 0) = (trade_quantity > 0)
       THEN \* adding to the position
            LET total_cost == pos.quantity * pos.average_price + trade_quantity * price
                new_quantity == pos.quantity + trade_quantity
            IN [pos EXCEPT !.quantity = new_quantity,
                           !.average_price = IF new_quantity # 0
                                             THEN Div(total_cost, new_quantity) ELSE @]
       ELSE \* reducing or reversing the position
            LET reduction == Min(Abs(trade_quantity), Abs(pos.quantity))
                realized_pnl == IF side = "Buy" THEN (pos.average_price - price) * reduction
                                ELSE (price - pos.average_price) * reduction
                new_quantity == pos.quantity + trade_quantity
            IN [pos EXCEPT !.realized_pnl = @ + realized_pnl,
                           !.quantity = new_quantity,
                           !.average_price =
                               IF new_quantity = 0 THEN 0
                               ELSE IF signum(new_quantity) # signum(new_quantity - trade_quantity)
                               THEN price ELSE @]

\* ------------------------------------------------------------------ actions (Position)
UpdateFromFill ==
    /\ fills_applied < MaxFills
    /\ \E side \in Sides, quantity \in FillQuantities, price \in FillPrices :
         /\ position' = update_from_fill(position, side, quantity, price)
         /\ fill_call' = [op |-> "update_from_fill", before |-> position,
                          side |-> side, quantity |-> quantity, price |-> price]
    /\ fills_applied' = fills_applied + 1
    /\ UNCHANGED <<system_vars, book_vars, engine_vars, dispatcher_vars, channel_vars, portfolio_vars,
                   trading_vars>>

\* ------------------------------------------------------------------ portfolio_service.rs
\* the cash main_new.rs gives the default portfolio
InitialCash == 100000

PortfolioPosition_new ==
    [quantity |-> 0, market_value |-> 0, average_cost |-> 0, unrealized_pnl |-> 0,
     realized_pnl |-> 0, side |-> "Flat", trade_count |-> 0]

\* Portfolio::new, then create_portfolio's cash_balance and total_equity; the
\* symbol's Position as positions.entry().or_insert_with(Position::new) would
\* create it
Portfolio_new(initial_cash) ==
    [position |-> PortfolioPosition_new, cash_balance |-> initial_cash,
     total_equity |-> initial_cash, unrealized_pnl |-> 0, realized_pnl |-> 0]

\* PortfolioService::update_position_from_execution
update_position_from_execution(pf, execution, fill_price) ==
    LET pos == pf.position
        trade_value == execution.quantity * fill_price
        is_buy == execution.side = "Buy"
        new_quantity_delta == IF is_buy THEN execution.quantity ELSE -execution.quantity
        old_quantity == pos.quantity
        updated ==
            IF old_quantity = 0
            THEN \* new position
                 [position |-> [pos EXCEPT !.quantity = new_quantity_delta,
                                           !.average_cost = fill_price,
                                           !.market_value = trade_value,
                                           !.side = IF is_buy THEN "Long" ELSE "Short"],
                  realized |-> 0]
            ELSE IF (old_quantity > 0) = (new_quantity_delta > 0)
            THEN \* adding to the position
                 LET total_cost == pos.quantity * pos.average_cost + trade_value
                     quantity == pos.quantity + new_quantity_delta
                 IN [position |-> [pos EXCEPT !.quantity = quantity,
                                              !.average_cost =
                                                  IF quantity # 0
                                                  THEN Div(total_cost, Abs(quantity)) ELSE @],
                     realized |-> 0]
            ELSE \* reducing or reversing the position
                 LET reduction_quantity == Min(Abs(new_quantity_delta), Abs(old_quantity))
                     realized_pnl ==
                         IF is_buy THEN (pos.average_cost - fill_price) * reduction_quantity
                         ELSE (fill_price - pos.average_cost) * reduction_quantity
                     quantity == pos.quantity + new_quantity_delta
                 IN [position |->
                        [pos EXCEPT !.realized_pnl = @ + realized_pnl,
                                    !.quantity = quantity,
                                    !.side = IF quantity = 0 THEN "Flat"
                                             ELSE IF signum(quantity) # signum(old_quantity)
                                             THEN (IF quantity > 0 THEN "Long" ELSE "Short")
                                             ELSE @,
                                    !.average_cost =
                                        IF quantity = 0 THEN 0
                                        ELSE IF signum(quantity) # signum(old_quantity)
                                        THEN fill_price ELSE @],
                     realized |-> realized_pnl]
        cash_impact == IF is_buy THEN -trade_value ELSE trade_value
    IN [pf EXCEPT !.position = [updated.position EXCEPT !.trade_count = @ + 1],
                  !.cash_balance = pf.cash_balance + cash_impact,
                  !.realized_pnl = pf.realized_pnl + updated.realized]

\* one turn of execution_reports_loop with a report in the channel: only a
\* Filled report with a positive quantity and a price updates the portfolio
execution_reports_loop(pf, execution) ==
    IF execution.status = "Filled" /\ execution.quantity > 0 /\ is_some(execution.price)
    THEN update_position_from_execution(pf, execution, unwrap(execution.price))
    ELSE pf

\* the reports TradingService sends: Filled with the filled quantity and the
\* fill price, Pending with quantity 0, Cancelled with quantity 0 and no price
ExecutionReports ==
    [status : {"Filled"}, side : Sides, quantity : FillQuantities,
     price : {Some(price) : price \in FillPrices}]
    \cup [status : {"Pending"}, side : Sides, quantity : {0},
          price : {Some(price) : price \in FillPrices}]
    \cup [status : {"Cancelled"}, side : Sides, quantity : {0}, price : {None}]

\* PortfolioService::update_position_market_value
update_position_market_value(pos, price_now) ==
    IF pos.quantity # 0
    THEN [pos EXCEPT !.market_value = Abs(pos.quantity) * price_now,
                     !.unrealized_pnl = (price_now - pos.average_cost) * pos.quantity]
    ELSE pos

\* a slip calculate_totals could make: adding the market value to the equity
\* it already holds instead of to the cash balance
calculate_totals_accumulating(pf) ==
    LET held == pf.position.quantity # 0
        total_unrealized_pnl == IF held THEN pf.position.unrealized_pnl ELSE 0
        total_market_value == IF held THEN pf.position.market_value ELSE 0
    IN [pf EXCEPT !.unrealized_pnl = total_unrealized_pnl,
                  !.total_equity = pf.total_equity + total_market_value]

\* Portfolio::calculate_totals
calculate_totals(pf) ==
    LET held == pf.position.quantity # 0
        total_unrealized_pnl == IF held THEN pf.position.unrealized_pnl ELSE 0
        total_market_value == IF held THEN pf.position.market_value ELSE 0
    IN [pf EXCEPT !.unrealized_pnl = total_unrealized_pnl,
                  !.total_equity = pf.cash_balance + total_market_value]

\* one turn of market_data_loop with a price for the symbol: the position is
\* marked to it and the portfolio's totals are recomputed
market_data_loop(pf, price) ==
    calculate_totals([pf EXCEPT !.position = update_position_market_value(@, price)])

\* prices of the market events
MarkPrices == {50000, 52000}

NoMarket == [op |-> "none", price |-> 0, before |-> None, repeated |-> FALSE]

\* ------------------------------------------------------------------ actions (portfolio_service.rs)
TakeExecutionReport ==
    /\ executions_taken < MaxExecutions
    /\ \E execution \in ExecutionReports :
         /\ portfolio' = execution_reports_loop(portfolio, execution)
         /\ execution_call' = [op |-> "execution_report", execution |-> execution,
                               before |-> portfolio]
    /\ executions_taken' = executions_taken + 1
    /\ market_call' = NoMarket
    /\ UNCHANGED marks_taken
    /\ UNCHANGED <<system_vars, book_vars, engine_vars, dispatcher_vars, channel_vars, position_vars,
                   trading_vars>>

\* what market_data_loop does with a price, whichever event brought it
MarkTo(price) ==
    /\ portfolio' = market_data_loop(portfolio, price)
    /\ market_call' = [op |-> "market_data", price |-> price, before |-> Some(portfolio),
                       repeated |-> market_call.op = "market_data"
                                    /\ market_call.price = price]

\* market_data_loop receives MarketEvent::Trade
MarketDataTrade ==
    /\ marks_taken < MaxMarks
    /\ \E price \in MarkPrices : MarkTo(price)
    /\ marks_taken' = marks_taken + 1
    /\ UNCHANGED <<executions_taken, execution_call>>
    /\ UNCHANGED <<system_vars, book_vars, engine_vars, dispatcher_vars, channel_vars, position_vars,
                   trading_vars>>

\* market_data_loop receives MarketEvent::BookSnapshot: the mid price of the
\* two best levels, and nothing at all when a side of the snapshot is empty
MarketDataBookSnapshot ==
    /\ marks_taken < MaxMarks
    /\ \E bids_first \in {None} \cup {Some(price) : price \in MarkPrices},
          asks_first \in {None} \cup {Some(price) : price \in MarkPrices} :
         IF is_some(bids_first) /\ is_some(asks_first)
         THEN MarkTo(Div(unwrap(bids_first) + unwrap(asks_first), 2))
         ELSE UNCHANGED <<portfolio, market_call>>
    /\ marks_taken' = marks_taken + 1
    /\ UNCHANGED <<executions_taken, execution_call>>
    /\ UNCHANGED <<system_vars, book_vars, engine_vars, dispatcher_vars, channel_vars, position_vars,
                   trading_vars>>

\* ------------------------------------------------------------------ trading_service.rs, TradingService
\* One symbol.  Prices are whole units, as for Position.
TradingPrices == {50000, 52000}

\* Sender::try_send: never blocks; Err(Full) when a bounded channel is at capacity
try_send(channel, capacity, message) ==
    IF is_some(capacity) /\ Len(channel) >= unwrap(capacity)
    THEN [ok |-> FALSE, channel |-> channel]
    ELSE [ok |-> TRUE, channel |-> Append(channel, message)]

\* a slip attempt_fill could make: treating every order as a Limit order, so
\* that an order without a limit price is never filled
attempt_fill_priced_only(order, price_now) ==
    IF is_some(order.price)
       /\ (IF order.side = "Buy" THEN price_now <= unwrap(order.price)
           ELSE price_now >= unwrap(order.price))
    THEN [filled |-> TRUE,
          order |-> [order EXCEPT !.filled_quantity = order.quantity, !.status = "Filled"],
          filled_quantity |-> remaining_quantity(order),
          fill_price |-> unwrap(order.price)]
    ELSE [filled |-> FALSE,
          order |-> [order EXCEPT !.status = "Pending"],
          filled_quantity |-> 0,
          fill_price |-> price_now]

\* TradingService::attempt_fill once the current price is known: the order
\* after it, the FillResult, and whether a paper trade was made
attempt_fill(order, price_now) ==
    LET can_fill ==
            IF order.order_type = "Market" THEN TRUE
            ELSE IF is_some(order.price)
                 THEN IF order.side = "Buy" THEN price_now <= unwrap(order.price)
                      ELSE price_now >= unwrap(order.price)
                 ELSE FALSE
        fill_price == IF order.order_type = "Market" THEN price_now
                      ELSE IF is_some(order.price) THEN unwrap(order.price) ELSE price_now
    IN IF can_fill
       THEN [filled |-> TRUE,
             order |-> [order EXCEPT !.filled_quantity = order.quantity, !.status = "Filled"],
             filled_quantity |-> remaining_quantity(order),
             fill_price |-> fill_price]
       ELSE [filled |-> FALSE,
             order |-> [order EXCEPT !.status = "Pending"],
             filled_quantity |-> 0,
             fill_price |-> price_now]

\* TradingService::update_position
update_position(pos, side, quantity, price) ==
    Some(update_from_fill(IF is_some(pos) THEN unwrap(pos) ELSE Position_new,
                          side, quantity, price))

\* Position::update_unrealized_pnl
update_unrealized_pnl(pos, price_now) ==
    IF pos.quantity # 0
    THEN [pos EXCEPT !.unrealized_pnl = (price_now - pos.average_price) * pos.quantity]
    ELSE pos

TradingReport(order_id, side, quantity, price, status) ==
    [order_id |-> order_id, side |-> side, quantity |-> quantity, price |-> price,
     status |-> status]

\* TradingService::submit_order
TradingService_submit_order(order) ==
    IF order.quantity <= 0 \/ (order.order_type = "Limit" /\ ~is_some(order.price))
    THEN \* Err(InvalidOrder)
         /\ trading_call' = [op |-> "submit_order", order_id |-> order.id, order |-> Some(order),
                             position_before |-> trading_position,
                             price_before |-> current_price, ok |-> FALSE,
                             report |-> None, sent |-> FALSE]
         /\ UNCHANGED <<trading_orders, trading_position, trading_trades, order_updates,
                        reports_returned>>
    ELSE IF ~is_some(current_price)
    THEN \* the order is stored, then attempt_fill's `?` returns get_current_price's Err
         /\ trading_orders' = MapPut(trading_orders, order.id, order)
         /\ trading_call' = [op |-> "submit_order", order_id |-> order.id, order |-> Some(order),
                             position_before |-> trading_position,
                             price_before |-> current_price, ok |-> FALSE,
                             report |-> None, sent |-> FALSE]
         /\ UNCHANGED <<trading_position, trading_trades, order_updates, reports_returned>>
    ELSE LET execution_result == attempt_fill(order, unwrap(current_price))
             filled_order == execution_result.order
             execution_report == TradingReport(order.id, order.side,
                                               execution_result.filled_quantity,
                                               Some(execution_result.fill_price),
                                               filled_order.status)
             sending == try_send(order_updates, order_updates_capacity, execution_report)
         IN /\ trading_orders' = MapPut(trading_orders, order.id, filled_order)
            /\ trading_position' =
                  IF execution_result.filled
                  THEN update_position(trading_position, order.side,
                                       execution_result.filled_quantity,
                                       execution_result.fill_price)
                  ELSE trading_position
            /\ trading_trades' =
                  IF execution_result.filled
                  THEN Append(trading_trades,
                              [order_id |-> order.id, side |-> order.side,
                               quantity |-> execution_result.filled_quantity,
                               price |-> execution_result.fill_price])
                  ELSE trading_trades
            /\ order_updates' = sending.channel
            /\ reports_returned' = Append(reports_returned, execution_report)
            /\ trading_call' = [op |-> "submit_order", order_id |-> order.id, order |-> Some(order),
                             position_before |-> trading_position,
                             price_before |-> current_price, ok |-> TRUE,
                                report |-> Some(execution_report), sent |-> sending.ok]

\* TradingService::cancel_order
TradingService_cancel_order(order_id) ==
    IF order_id \in DOMAIN trading_orders /\ trading_orders[order_id].status = "Pending"
    THEN LET order == trading_orders[order_id]
             execution_report == TradingReport(order_id, order.side, 0, None, "Cancelled")
             sending == try_send(order_updates, order_updates_capacity, execution_report)
         IN /\ trading_orders' = MapPut(trading_orders, order_id,
                                        [order EXCEPT !.status = "Cancelled"])
            /\ order_updates' = sending.channel
            /\ reports_returned' = Append(reports_returned, execution_report)
            /\ trading_call' = [op |-> "cancel_order", order_id |-> order_id, order |-> None,
                             position_before |-> trading_position,
                             price_before |-> current_price, ok |-> TRUE,
                                report |-> Some(execution_report), sent |-> sending.ok]
            /\ UNCHANGED <<trading_position, trading_trades>>
    ELSE \* Err(InvalidOrder): not found, or not pending
         /\ trading_call' = [op |-> "cancel_order", order_id |-> order_id, order |-> None,
                             position_before |-> trading_position,
                             price_before |-> current_price, ok |-> FALSE,
                             report |-> None, sent |-> FALSE]
         /\ UNCHANGED <<trading_orders, trading_position, trading_trades, order_updates,
                        reports_returned>>

\* ------------------------------------------------------------------ actions (TradingService)
\* a client builds an order, valid or not, and submits it
TradingSubmitOrder ==
    /\ trading_next_id <= MaxTradingOrders
    /\ \E side \in Sides :
         \/ \E price \in TradingPrices, quantity \in {0, 1, 2} :
               TradingService_submit_order(
                   Order_new(trading_next_id, side, "Limit", quantity, Some(price)))
         \/ \E quantity \in {1, 2} :
               \/ TradingService_submit_order(
                      Order_new(trading_next_id, side, "Market", quantity, None))
               \/ TradingService_submit_order(
                      Order_new(trading_next_id, side, "Limit", quantity, None))
    /\ trading_next_id' = trading_next_id + 1
    /\ UNCHANGED <<current_price, order_updates_capacity, reports_consumed>>
    /\ UNCHANGED <<system_vars, book_vars, engine_vars, dispatcher_vars, channel_vars, position_vars,
                   portfolio_vars>>

TradingCancelOrder ==
    /\ \E order_id \in 1..MaxTradingOrders : TradingService_cancel_order(order_id)
    /\ UNCHANGED <<current_price, order_updates_capacity, reports_consumed, trading_next_id>>
    /\ UNCHANGED <<system_vars, book_vars, engine_vars, dispatcher_vars, channel_vars, position_vars,
                   portfolio_vars>>

\* market_data_loop receives a Trade event: the current price is set and the
\* position, if there is one, is marked to it
MarketTrade ==
    /\ \E price \in TradingPrices :
         /\ current_price' = Some(price)
         /\ trading_position' = IF is_some(trading_position)
                                THEN Some(update_unrealized_pnl(unwrap(trading_position), price))
                                ELSE trading_position
    /\ UNCHANGED <<trading_orders, trading_trades, order_updates, order_updates_capacity,
                   trading_next_id, reports_returned, reports_consumed, trading_call>>
    /\ UNCHANGED <<system_vars, book_vars, engine_vars, dispatcher_vars, channel_vars, position_vars,
                   portfolio_vars>>

\* the service at the other end of the channel receives the oldest report
ConsumeReport ==
    /\ order_updates # <<>>
    /\ reports_consumed' = Append(reports_consumed, Head(order_updates))
    /\ order_updates' = Tail(order_updates)
    /\ UNCHANGED <<trading_orders, trading_position, trading_trades, current_price,
                   order_updates_capacity, trading_next_id, reports_returned, trading_call>>
    /\ UNCHANGED <<system_vars, book_vars, engine_vars, dispatcher_vars, channel_vars, position_vars,
                   portfolio_vars>>


\* ------------------------------------------------------------------ start() and stop()
\* OrderBookEngine (orderbook/engine.rs), PortfolioService and TradingService
\* guard start() with the same compare_exchange on their is_running flag.
Services == {"OrderBookEngine", "PortfolioService", "TradingService"}

\* threads calling start() on the same service object
Starters == {1, 2}

\* a slip start() could make: storing true whatever the flag holds
compare_exchange_blind(flag, current, new) ==
    [ok |-> TRUE, value |-> new]

\* AtomicBool::compare_exchange(current, new, ..): one atomic step
compare_exchange(flag, current, new) ==
    IF flag = current THEN [ok |-> TRUE, value |-> new]
    ELSE [ok |-> FALSE, value |-> flag]

\* tokio::spawn calls in one start(): the metrics task; the execution report,
\* market data and snapshot loops; the market data loop
tasks_per_start(service) ==
    CASE service = "OrderBookEngine" -> 1
      [] service = "PortfolioService" -> 3
      [] service = "TradingService" -> 1

NoStart == [op |-> "none", service |-> "", was_running |-> FALSE, running_after |-> FALSE,
            result |-> ""]

\* start(), up to its return Err or to the first spawn
StartCompareExchange(c, service) ==
    /\ start_pc[c] = "idle"
    /\ starts_made[c] < MaxStarts
    /\ LET exchanged == compare_exchange(is_running[service], FALSE, TRUE)
       IN /\ is_running' = [is_running EXCEPT ![service] = exchanged.value]
          /\ start_call' = [start_call EXCEPT ![c] =
                 [op |-> "start", service |-> service, was_running |-> is_running[service],
                  running_after |-> exchanged.value,
                  result |-> IF exchanged.ok THEN "spawning" ELSE "Err"]]
          /\ start_pc' = [start_pc EXCEPT ![c] = IF exchanged.ok THEN "spawning" ELSE "idle"]
          /\ starts_won' = [starts_won EXCEPT ![service] = IF exchanged.ok THEN @ + 1 ELSE @]
    /\ starts_made' = [starts_made EXCEPT ![c] = @ + 1]
    /\ UNCHANGED <<tasks_spawned, stops_made, loops_alive>>

\* start() after a successful compare_exchange: the tasks are spawned, Ok(())
StartSpawn(c) ==
    /\ start_pc[c] = "spawning"
    /\ LET service == start_call[c].service
       IN /\ tasks_spawned' = [tasks_spawned EXCEPT ![service] = @ + tasks_per_start(service)]
          /\ loops_alive' = IF service = "PortfolioService" THEN loops_alive + 1
                            ELSE loops_alive
    /\ start_call' = [start_call EXCEPT ![c].result = "Ok"]
    /\ start_pc' = [start_pc EXCEPT ![c] = "idle"]
    /\ UNCHANGED <<is_running, starts_made, starts_won, stops_made>>

\* stop(): is_running.store(false)
Stop(service) ==
    /\ stops_made[service] < MaxStops
    /\ is_running' = [is_running EXCEPT ![service] = FALSE]
    /\ stops_made' = [stops_made EXCEPT ![service] = @ + 1]
    /\ UNCHANGED <<tasks_spawned, start_pc, start_call, starts_made, starts_won, loops_alive>>

\* ------------------------------------------------------------------ actions (start and stop)
StartService ==
    /\ \E c \in Starters, service \in Services : StartCompareExchange(c, service)
    /\ UNCHANGED <<portfolios, accounts_created, execution_reports_rx, reports_sent,
                   position_updates>>
    /\ UNCHANGED <<book_vars, engine_vars, dispatcher_vars, channel_vars, position_vars,
                   portfolio_vars, trading_vars, utility_vars>>

SpawnTasks ==
    /\ \E c \in Starters : StartSpawn(c)
    /\ UNCHANGED <<portfolios, accounts_created, execution_reports_rx, reports_sent,
                   position_updates>>
    /\ UNCHANGED <<book_vars, engine_vars, dispatcher_vars, channel_vars, position_vars,
                   portfolio_vars, trading_vars, utility_vars>>

StopService ==
    /\ \E service \in Services : Stop(service)
    /\ UNCHANGED <<portfolios, accounts_created, execution_reports_rx, reports_sent,
                   position_updates>>
    /\ UNCHANGED <<book_vars, engine_vars, dispatcher_vars, channel_vars, position_vars,
                   portfolio_vars, trading_vars, utility_vars>>

\* ------------------------------------------------------------------ portfolio_service.rs, the service
\* the account execution_reports_loop names, and the one of test_position_updates
Accounts == {"default", "test_account"}

\* PortfolioService::create_portfolio
create_portfolio(account_id, initial_cash) ==
    IF account_id \in DOMAIN portfolios
    THEN \* Err(Internal("Portfolio already exists .."))
         UNCHANGED <<portfolios, accounts_created>>
    ELSE /\ portfolios' = MapPut(portfolios, account_id, Portfolio_new(initial_cash))
         /\ accounts_created' = accounts_created \cup {account_id}

\* PortfolioService::get_position(account_id, symbol): the symbol's entry of
\* positions exists once a fill has been applied to the account
get_position(account_id) ==
    IF account_id \in DOMAIN portfolios /\ portfolios[account_id].position.trade_count > 0
    THEN Some(portfolios[account_id].position)
    ELSE None

\* ------------------------------------------------------------------ actions (PortfolioService)
\* PortfolioService is the only service of this specification
StartPortfolioService ==
    /\ \E c \in Starters : StartCompareExchange(c, "PortfolioService")
    /\ UNCHANGED <<portfolios, accounts_created, execution_reports_rx, reports_sent,
                   position_updates>>
    /\ UNCHANGED <<book_vars, engine_vars, dispatcher_vars, channel_vars, position_vars,
                   portfolio_vars, trading_vars, utility_vars>>

StopPortfolioService ==
    /\ Stop("PortfolioService")
    /\ UNCHANGED <<portfolios, accounts_created, execution_reports_rx, reports_sent,
                   position_updates>>
    /\ UNCHANGED <<book_vars, engine_vars, dispatcher_vars, channel_vars, position_vars,
                   portfolio_vars, trading_vars, utility_vars>>

CreatePortfolio ==
    /\ \E account_id \in Accounts : create_portfolio(account_id, InitialCash)
    /\ UNCHANGED <<execution_reports_rx, reports_sent, position_updates, loops_alive>>
    /\ UNCHANGED <<lifecycle_vars, book_vars, engine_vars, dispatcher_vars, channel_vars,
                   position_vars, portfolio_vars, trading_vars, utility_vars>>

\* the reports sent to the running service: those of one price, 50000 as in
\* test_position_updates
ChannelReports ==
    {execution \in ExecutionReports : execution.price \in {None, Some(50000)}}

\* exec_tx.send(execution_report) on the unbounded channel
SendExecutionReport ==
    /\ Len(reports_sent) < MaxExecutions
    /\ \E execution \in ChannelReports :
         /\ execution_reports_rx' = Append(execution_reports_rx, execution)
         /\ reports_sent' = Append(reports_sent,
                [execution |-> execution, created |-> accounts_created,
                 running |-> is_running["PortfolioService"] /\ loops_alive > 0])
    /\ UNCHANGED <<portfolios, accounts_created, position_updates, loops_alive>>
    /\ UNCHANGED <<lifecycle_vars, book_vars, engine_vars, dispatcher_vars, channel_vars,
                   position_vars, portfolio_vars, trading_vars, utility_vars>>

\* one turn of execution_reports_loop that finds the service running and a
\* report in the channel: a fill is applied to the account "default", created
\* by Portfolio::new if it is not there, and a PositionUpdate is sent
ExecutionReportsLoop ==
    /\ loops_alive > 0
    /\ is_running["PortfolioService"]
    /\ execution_reports_rx # <<>>
    /\ LET execution_report == Head(execution_reports_rx)
           account_id == "default"
           portfolio_entry == IF account_id \in DOMAIN portfolios THEN portfolios[account_id]
                              ELSE Portfolio_new(0)
       IN IF execution_report.status = "Filled" /\ execution_report.quantity > 0
             /\ is_some(execution_report.price)
          THEN /\ portfolios' = MapPut(portfolios, account_id,
                                       execution_reports_loop(portfolio_entry, execution_report))
               /\ position_updates' = Append(position_updates,
                      [side |-> execution_report.side, quantity |-> execution_report.quantity,
                       price |-> unwrap(execution_report.price)])
          ELSE UNCHANGED <<portfolios, position_updates>>
    /\ execution_reports_rx' = Tail(execution_reports_rx)
    /\ UNCHANGED <<accounts_created, reports_sent, loops_alive>>
    /\ UNCHANGED <<lifecycle_vars, book_vars, engine_vars, dispatcher_vars, channel_vars,
                   position_vars, portfolio_vars, trading_vars, utility_vars>>

\* a turn of execution_reports_loop that finds is_running false: the task returns
ExecutionReportsLoopExit ==
    /\ loops_alive > 0
    /\ ~is_running["PortfolioService"]
    /\ loops_alive' = loops_alive - 1
    /\ UNCHANGED <<portfolios, accounts_created, execution_reports_rx, reports_sent,
                   position_updates>>
    /\ UNCHANGED <<lifecycle_vars, book_vars, engine_vars, dispatcher_vars, channel_vars,
                   position_vars, portfolio_vars, trading_vars, utility_vars>>

\* ------------------------------------------------------------------ types/order.rs, OrderId
\* threads calling OrderId::new
IdThreads == {1, 2}

\* a slip OrderId::new could make: reading the counter without advancing it
fetch_add_load(counter, val) ==
    [previous |-> counter, value |-> counter]

\* AtomicU64::fetch_add(val, Relaxed): one atomic read-modify-write, returning
\* the previous value.  It wraps at 2^64, which no process reaches by counting.
fetch_add(counter, val) ==
    [previous |-> counter, value |-> counter + val]

\* OrderId::new on thread t
OrderId_new(t) ==
    LET fetched == fetch_add(COUNTER, 1)
    IN /\ COUNTER' = fetched.value
       /\ ids_minted' = [ids_minted EXCEPT ![t] = Append(@, fetched.previous)]

\* ------------------------------------------------------------------ actions (OrderId)
NewOrderId ==
    /\ Len(ids_minted[1]) + Len(ids_minted[2]) < MaxIds
    /\ \E t \in IdThreads : OrderId_new(t)
    /\ UNCHANGED <<order_vars, symbol_vars, latency_vars, lifecycle_vars, account_vars, book_vars, engine_vars, dispatcher_vars,
                   channel_vars, position_vars, portfolio_vars, trading_vars>>

\* ------------------------------------------------------------------ utils/latency.rs
\* latencies recorded, in nanoseconds: elapsed times, as every caller records
Latencies == {1000, 2000, 3000}

\* a slip get_distribution could make: reading the samples in arrival order
sort_unstable_skipped(samples_vec) == samples_vec

RECURSIVE sort_unstable(_)
\* slice::sort_unstable on u64: the samples in ascending order
sort_unstable(samples_vec) ==
    IF samples_vec = <<>> THEN <<>>
    ELSE LET least == SetMin({samples_vec[i] : i \in 1..Len(samples_vec)})
             at == CHOOSE i \in 1..Len(samples_vec) : samples_vec[i] = least
         IN <<least>> \o sort_unstable(RemoveAt(samples_vec, at))

RECURSIVE Sum(_)
\* Iterator::sum
Sum(samples_vec) ==
    IF samples_vec = <<>> THEN 0 ELSE Head(samples_vec) + Sum(Tail(samples_vec))

\* LatencyDistribution::default(); its min is u64::MAX, written as its name
LatencyDistribution_default ==
    [min |-> "u64::MAX", max |-> 0, mean |-> 0, p50 |-> 0, p95 |-> 0, p99 |-> 0, p999 |-> 0,
     sample_count |-> 0]

\* slice::get(idx).copied().unwrap_or(0), idx counted from 0
get_or_zero(sorted_samples, idx) ==
    IF idx < Len(sorted_samples) THEN sorted_samples[idx + 1] ELSE 0

\* LatencyTracker::get_distribution; the mean is kept to the nanosecond
get_distribution(tracker_samples) ==
    IF tracker_samples = <<>> THEN LatencyDistribution_default
    ELSE LET sorted_samples == sort_unstable(tracker_samples)
             len == Len(sorted_samples)
             p50_idx == (len * 50) \div 100
             p95_idx == (len * 95) \div 100
             p99_idx == (len * 99) \div 100
             p999_idx == (len * 999) \div 1000
             sum == Sum(sorted_samples)
         IN [min |-> get_or_zero(sorted_samples, 0),
             max |-> get_or_zero(sorted_samples, len - 1),
             mean |-> IF len > 0 THEN sum \div len ELSE 0,
             p50 |-> get_or_zero(sorted_samples, p50_idx),
             p95 |-> get_or_zero(sorted_samples, p95_idx),
             p99 |-> get_or_zero(sorted_samples, p99_idx),
             p999 |-> get_or_zero(sorted_samples, p999_idx),
             sample_count |-> len]

\* LatencyTracker::record_latency: pop_front on an empty deque does nothing
record_latency(tracker_samples, capacity, latency_nanos) ==
    Append(IF Len(tracker_samples) >= capacity /\ tracker_samples # <<>>
           THEN Tail(tracker_samples) ELSE tracker_samples,
           latency_nanos)

\* ------------------------------------------------------------------ actions (LatencyTracker)
RecordLatency ==
    /\ records_made < MaxRecords
    /\ \E latency_nanos \in Latencies :
         samples' = record_latency(samples, max_samples, latency_nanos)
    /\ records_made' = records_made + 1
    /\ UNCHANGED <<max_samples, distribution>>
    /\ UNCHANGED <<order_vars, symbol_vars, order_id_vars, lifecycle_vars, account_vars, book_vars, engine_vars,
                   dispatcher_vars, channel_vars, position_vars, portfolio_vars, trading_vars>>

GetDistribution ==
    /\ distribution' = Some([of |-> samples, result |-> get_distribution(samples)])
    /\ UNCHANGED <<samples, max_samples, records_made>>
    /\ UNCHANGED <<order_vars, symbol_vars, order_id_vars, lifecycle_vars, account_vars, book_vars, engine_vars,
                   dispatcher_vars, channel_vars, position_vars, portfolio_vars, trading_vars>>

\* LatencyTracker::reset
ResetLatencies ==
    /\ samples' = <<>>
    /\ UNCHANGED <<max_samples, records_made, distribution>>
    /\ UNCHANGED <<order_vars, symbol_vars, order_id_vars, lifecycle_vars, account_vars, book_vars, engine_vars,
                   dispatcher_vars, channel_vars, position_vars, portfolio_vars, trading_vars>>

\* ------------------------------------------------------------------ symbols and their books
\* MatchingEngine.orderbooks and TradingEngine.order_books map a symbol to its
\* book.  Here a book is followed as the ids of the orders handed to its
\* add_order, in order; what add_order does with an order is modelled above
\* (book.rs) and below (engine.rs) for one book.
Symbols == {"BTCUSDT", "ETHUSDT", "ADAUSDT", "SOLUSDT"}

\* OrderBook::new(symbol)
SymbolBook_new == <<>>

\* TradingEngine::new: books for three pairs
TradingEngine_new ==
    [symbol \in {"BTCUSDT", "ETHUSDT", "ADAUSDT"} |-> SymbolBook_new]

\* MatchingEngine::process_new_order: get or create the symbol's book, add_order
MatchingEngine_process_new_order(order_id, symbol) ==
    LET orderbook == IF symbol \in DOMAIN orderbooks THEN orderbooks[symbol]
                     ELSE SymbolBook_new
    IN /\ orderbooks' = MapPut(orderbooks, symbol, Append(orderbook, order_id))
       /\ symbol_call' = [op |-> "MatchingEngine::submit_order", order_id |-> order_id,
                          symbol |-> symbol, known |-> symbol \in DOMAIN orderbooks,
                          ok |-> TRUE]
       /\ UNCHANGED <<order_books, total_orders>>

\* TradingEngine::process_order
TradingEngine_process_order(order_id, symbol) ==
    IF symbol \in DOMAIN order_books
    THEN /\ order_books' = [order_books EXCEPT ![symbol] = Append(@, order_id)]
         /\ total_orders' = total_orders + 1
         /\ symbol_call' = [op |-> "TradingEngine::process_order", order_id |-> order_id,
                            symbol |-> symbol, known |-> TRUE, ok |-> TRUE]
         /\ UNCHANGED orderbooks
    ELSE \* Err("Unknown symbol: ..")
         /\ symbol_call' = [op |-> "TradingEngine::process_order", order_id |-> order_id,
                            symbol |-> symbol, known |-> FALSE, ok |-> FALSE]
         /\ UNCHANGED <<orderbooks, order_books, total_orders>>

\* ------------------------------------------------------------------ actions (symbols)
MatchingEngineSubmit ==
    /\ symbol_next_id <= MaxSymbolOrders
    /\ \E symbol \in Symbols : MatchingEngine_process_new_order(symbol_next_id, symbol)
    /\ symbol_next_id' = symbol_next_id + 1
    /\ UNCHANGED <<order_vars, order_id_vars, latency_vars, lifecycle_vars, account_vars, book_vars,
                   engine_vars, dispatcher_vars, channel_vars, position_vars, portfolio_vars,
                   trading_vars>>

TradingEngineProcess ==
    /\ symbol_next_id <= MaxSymbolOrders
    /\ \E symbol \in Symbols : TradingEngine_process_order(symbol_next_id, symbol)
    /\ symbol_next_id' = symbol_next_id + 1
    /\ UNCHANGED <<order_vars, order_id_vars, latency_vars, lifecycle_vars, account_vars, book_vars,
                   engine_vars, dispatcher_vars, channel_vars, position_vars, portfolio_vars,
                   trading_vars>>

\* ------------------------------------------------------------------ types/order.rs
\* The Order of types/order.rs keeps f64 quantities; those used here are whole
\* numbers, which f64 adds and subtracts exactly.
OrderQuantities == {1, 2, 3}
\* the quantity is an f64 that fill does not inspect
FillAmounts == {-1, 0, 1, 2, 3}

Order_new_limit(price, quantity) ==
    [order_type |-> "Limit", price |-> price, initial_quantity |-> quantity,
     remaining_quantity |-> quantity, status |-> "Pending"]

\* market orders don't have a price: 0.0
Order_new_market(quantity) ==
    [order_type |-> "Market", price |-> 0, initial_quantity |-> quantity,
     remaining_quantity |-> quantity, status |-> "Pending"]

\* Order::fill
Order_fill(order, quantity) ==
    LET remaining == order.remaining_quantity - quantity
    IN IF remaining <= 0
       THEN [order EXCEPT !.remaining_quantity = 0, !.status = "Filled"]
       ELSE [order EXCEPT !.remaining_quantity = remaining, !.status = "PartiallyFilled"]

\* Order::filled_quantity
Order_filled_quantity(order) == order.initial_quantity - order.remaining_quantity

OrderNew ==
    /\ typed_order = None
    /\ \E quantity \in OrderQuantities :
          \/ typed_order' = Some(Order_new_limit(100, quantity))
          \/ typed_order' = Some(Order_new_market(quantity))
    /\ UNCHANGED <<order_fills_made, order_fill_call>>
    /\ UNCHANGED <<symbol_vars, order_id_vars, latency_vars, lifecycle_vars, account_vars,
                   book_vars, engine_vars, dispatcher_vars, channel_vars, position_vars,
                   portfolio_vars, trading_vars>>

OrderFill ==
    /\ is_some(typed_order)
    /\ order_fills_made < MaxOrderFills
    /\ \E quantity \in FillAmounts :
          /\ typed_order' = Some(Order_fill(unwrap(typed_order), quantity))
          /\ order_fill_call' = [op |-> "fill", quantity |-> quantity, before |-> typed_order]
    /\ order_fills_made' = order_fills_made + 1
    /\ UNCHANGED <<symbol_vars, order_id_vars, latency_vars, lifecycle_vars, account_vars,
                   book_vars, engine_vars, dispatcher_vars, channel_vars, position_vars,
                   portfolio_vars, trading_vars>>

\* ------------------------------------------------------------------ engine.rs
\* PriceLevel.order_count is a u32.  A u32 value v is represented by v when
\* v < 2^31 and by v - 2^32 otherwise, so that wrapping arithmetic is integer
\* arithmetic on the representatives: -1 stands for 4294967295.
get_best_bid == IF DOMAIN engine_bids = {} THEN None ELSE Some(SetMax(DOMAIN engine_bids))
get_best_ask == IF DOMAIN engine_asks = {} THEN None ELSE Some(SetMin(DOMAIN engine_asks))

\* OrderBook::execute_match on the side map opposite to the incoming order.
\* panicked: `level.order_count -= 1` on a zero count with overflow checks on;
\* the quantity has been written to the level by then, nothing after it runs.
execute_match(side_book, incoming_order, price) ==
    IF price \in DOMAIN side_book
    THEN LET level == side_book[price]
             match_quantity == Min(remaining_quantity(incoming_order), level.quantity)
             filled == [incoming_order EXCEPT !.filled_quantity = @ + match_quantity]
             updated == [filled EXCEPT !.status = IF is_fully_filled(filled)
                                                   THEN "Filled" ELSE "PartiallyFilled"]
             quantity == level.quantity - match_quantity
         IN IF level.order_count = 0 /\ overflow_checks
            THEN [panicked |-> TRUE,
                  side_book |-> MapPut(side_book, price, [level EXCEPT !.quantity = quantity]),
                  incoming_order |-> updated,
                  matched_order |-> None]
            ELSE [panicked |-> FALSE,
                  side_book |-> IF quantity = 0 THEN MapRemove(side_book, price)
                                ELSE MapPut(side_book, price,
                                            [level EXCEPT !.quantity = quantity,
                                                          !.order_count = @ - 1]),
                  incoming_order |-> updated,
                  matched_order |-> Some([updated EXCEPT !.filled_quantity = match_quantity,
                                                         !.price = Some(price)])]
    ELSE [panicked |-> FALSE, side_book |-> side_book,
          incoming_order |-> incoming_order, matched_order |-> None]

\* a slip the loop could make: a limit order matches only a strictly better
\* price, `>` and `<` for `>=` and `<=`
RECURSIVE match_order_loop_strict(_, _, _)
match_order_loop_strict(side_book, order, matches) ==
    IF remaining_quantity(order) > 0 /\ DOMAIN side_book # {}
    THEN LET best_price == IF order.side = "Buy" THEN SetMin(DOMAIN side_book)
                           ELSE SetMax(DOMAIN side_book)
             crosses == IF is_some(order.price)
                        THEN IF order.side = "Buy" THEN unwrap(order.price) > best_price
                             ELSE unwrap(order.price) < best_price
                        ELSE TRUE
             result == execute_match(side_book, order, best_price)
         IN IF crosses /\ result.panicked
            THEN [panicked |-> TRUE, side_book |-> result.side_book,
                  order |-> result.incoming_order, matches |-> matches]
            ELSE IF crosses /\ is_some(result.matched_order)
            THEN match_order_loop_strict(result.side_book, result.incoming_order,
                                         Append(matches, unwrap(result.matched_order)))
            ELSE [panicked |-> FALSE, side_book |-> side_book,
                  order |-> order, matches |-> matches]
    ELSE [panicked |-> FALSE, side_book |-> side_book, order |-> order, matches |-> matches]

\* the while loop of OrderBook::match_order
RECURSIVE match_order_loop(_, _, _)
match_order_loop(side_book, order, matches) ==
    IF remaining_quantity(order) > 0 /\ DOMAIN side_book # {}
    THEN LET best_price == IF order.side = "Buy" THEN SetMin(DOMAIN side_book)
                           ELSE SetMax(DOMAIN side_book)
             crosses == IF is_some(order.price)
                        THEN IF order.side = "Buy" THEN unwrap(order.price) >= best_price
                             ELSE unwrap(order.price) <= best_price
                        ELSE TRUE
         IN IF crosses
            THEN LET result == execute_match(side_book, order, best_price)
                 IN IF result.panicked
                    THEN [panicked |-> TRUE, side_book |-> result.side_book,
                          order |-> result.incoming_order, matches |-> matches]
                    ELSE IF is_some(result.matched_order)
                    THEN match_order_loop(result.side_book, result.incoming_order,
                                          Append(matches, unwrap(result.matched_order)))
                    ELSE [panicked |-> FALSE, side_book |-> side_book,
                          order |-> order, matches |-> matches]
            ELSE [panicked |-> FALSE, side_book |-> side_book,
                  order |-> order, matches |-> matches]
    ELSE [panicked |-> FALSE, side_book |-> side_book, order |-> order, matches |-> matches]

match_order(order) ==
    match_order_loop(IF order.side = "Buy" THEN engine_asks ELSE engine_bids, order, <<>>)

\* a slip add_to_book could make: resting an order that has no price at
\* price.unwrap_or(Decimal::ZERO) instead of not resting it
add_to_book_unpriced(side_book, index, order) ==
    IF remaining_quantity(order) > 0
    THEN LET price == IF is_some(order.price) THEN unwrap(order.price) ELSE 0
             level == IF price \in DOMAIN side_book THEN side_book[price]
                      ELSE PriceLevel_new(price)
         IN [side_book |-> MapPut(side_book, price,
                                  [level EXCEPT !.quantity = @ + remaining_quantity(order),
                                                !.order_count = @ + 1]),
             orders |-> MapPut(index, order.id, order)]
    ELSE [side_book |-> side_book, orders |-> index]

\* OrderBook::add_to_book: the order's own side map and the orders index after it.
\* An order without a price (a market order) is not rested.
add_to_book(side_book, index, order) ==
    IF is_some(order.price) /\ remaining_quantity(order) > 0
    THEN LET price == unwrap(order.price)
             level == IF price \in DOMAIN side_book THEN side_book[price]
                      ELSE PriceLevel_new(price)
         IN [side_book |-> MapPut(side_book, price,
                                  [level EXCEPT !.quantity = @ + remaining_quantity(order),
                                                !.order_count = @ + 1]),
             orders |-> MapPut(index, order.id, order)]
    ELSE [side_book |-> side_book, orders |-> index]

EngineSnapshot == [bids |-> engine_bids, asks |-> engine_asks, orders |-> engine_orders]

\* engine.rs OrderBook::add_order.  A panic inside match_order unwinds the call:
\* what execute_match had written stays, nothing is rested, nothing is returned.
engine_add_order(order) ==
    LET matching == match_order(order)
        remaining_order == matching.order
        own == IF order.side = "Buy" THEN engine_bids ELSE engine_asks
        rested == IF ~matching.panicked /\ remaining_quantity(remaining_order) > 0
                  THEN add_to_book(own, engine_orders, remaining_order)
                  ELSE [side_book |-> own, orders |-> engine_orders]
    IN /\ engine_bids' = IF order.side = "Buy" THEN rested.side_book ELSE matching.side_book
       /\ engine_asks' = IF order.side = "Buy" THEN matching.side_book ELSE rested.side_book
       /\ engine_orders' = rested.orders
       /\ engine_call' = [op |-> "add_order", order |-> order,
                          panicked |-> matching.panicked,
                          remaining_order |-> remaining_order,
                          matches |-> IF matching.panicked THEN <<>> ELSE matching.matches,
                          before |-> EngineSnapshot]

\* ------------------------------------------------------------------ actions (engine.rs)
EngineAddLimitOrder ==
    /\ engine_next_id <= MaxEngineOrders
    /\ \E side \in Sides, price \in Prices, quantity \in Quantities :
         engine_add_order(Order_new(engine_next_id, side, "Limit", quantity, Some(price)))
    /\ engine_next_id' = engine_next_id + 1
    /\ UNCHANGED <<book_vars, overflow_checks, component_vars>>

EngineAddMarketOrder ==
    /\ engine_next_id <= MaxEngineOrders
    /\ \E side \in Sides, quantity \in Quantities :
         engine_add_order(Order_new(engine_next_id, side, "Market", quantity, None))
    /\ engine_next_id' = engine_next_id + 1
    /\ UNCHANGED <<book_vars, overflow_checks, component_vars>>

EmptyMap == [k \in {} |-> 0]

\* OrderBook::new for both books; nothing submitted yet
InitBooks ==
    /\ bids = EmptyMap
    /\ asks = EmptyMap
    /\ orders = EmptyMap
    /\ sequence = 0
    /\ next_order_id = 1
    /\ last_call = NoCall
    /\ reported = [id \in OrderIds |-> 0]
    /\ maker_matched = [id \in OrderIds |-> 0]
    /\ thread_pc = [t \in BookThreads |-> "idle"]
    /\ thread_call = [t \in BookThreads |-> NoThreadCall]
    /\ engine_bids = EmptyMap
    /\ engine_asks = EmptyMap
    /\ engine_orders = EmptyMap
    /\ engine_next_id = 1
    /\ engine_call = [op |-> "none", order |-> <<>>, panicked |-> FALSE,
                      remaining_order |-> <<>>, matches |-> <<>>, before |-> <<>>]

NoDispatch == [op |-> "none", order_id |-> 0, order |-> <<>>, response |-> "none",
               ok |-> TRUE, value |-> <<>>, before |-> <<>>]

\* MatchingEngine::new and the services, nothing called yet
InitComponents ==
    /\ dispatch = NoDispatch
    /\ message_channel = <<>>
    /\ response_channel = <<>>
    /\ worker_running = FALSE
    /\ caller_pc = [c \in Callers |-> "idle"]
    /\ calls_made = [c \in Callers |-> 0]
    /\ request = [c \in Callers |-> None]
    /\ received = [c \in Callers |-> None]
    /\ enqueued = <<>>
    /\ processing = [w \in Workers |-> None]
    /\ applied = <<>>
    /\ position = Position_new
    /\ fills_applied = 0
    /\ fill_call = [op |-> "none", before |-> Position_new, side |-> "Buy",
                    quantity |-> 0, price |-> 0]
    /\ portfolio = Portfolio_new(InitialCash)
    /\ executions_taken = 0
    /\ execution_call = [op |-> "none", execution |-> <<>>, before |-> Portfolio_new(InitialCash)]
    /\ marks_taken = 0
    /\ market_call = NoMarket
    /\ trading_orders = EmptyMap
    /\ trading_position = None
    /\ trading_trades = <<>>
    /\ current_price = None
    /\ order_updates = <<>>
    /\ trading_next_id = 1
    /\ reports_returned = <<>>
    /\ reports_consumed = <<>>
    /\ trading_call = [op |-> "none", order_id |-> 0, order |-> None,
                       position_before |-> None, price_before |-> None,
                       ok |-> TRUE, report |-> None, sent |-> FALSE]
    /\ is_running = [service \in Services |-> FALSE]
    /\ tasks_spawned = [service \in Services |-> 0]
    /\ start_pc = [c \in Starters |-> "idle"]
    /\ start_call = [c \in Starters |-> NoStart]
    /\ starts_made = [c \in Starters |-> 0]
    /\ starts_won = [service \in Services |-> 0]
    /\ stops_made = [service \in Services |-> 0]
    /\ portfolios = EmptyMap
    /\ accounts_created = {}
    /\ execution_reports_rx = <<>>
    /\ reports_sent = <<>>
    /\ position_updates = <<>>
    /\ loops_alive = 0
    /\ COUNTER = 1
    /\ ids_minted = [t \in IdThreads |-> <<>>]
    /\ samples = <<>>
    /\ records_made = 0
    /\ distribution = None
    /\ orderbooks = EmptyMap
    /\ order_books = TradingEngine_new
    /\ total_orders = 0
    /\ symbol_next_id = 1
    /\ symbol_call = [op |-> "none", order_id |-> 0, symbol |-> "", known |-> FALSE,
                      ok |-> TRUE]
    /\ typed_order = None
    /\ order_fills_made = 0
    /\ order_fill_call = [op |-> "none", quantity |-> 0, before |-> None]

\* book.rs has no arithmetic that can overflow: the build profile is immaterial.
\* Every order of Spec and EngineSpec is built as the spec's Order says (a Limit
\* order has a price), so what can_match answers without one is immaterial too.
Init ==
    /\ InitBooks /\ InitComponents
    /\ overflow_checks = TRUE /\ priceless_limit_matches = FALSE /\ runtime_threads = 1
    /\ order_updates_capacity = None /\ max_samples = MaxCapacity

Next == AddLimitOrder \/ AddMarketOrder \/ CancelOrder

Spec == Init /\ [][Next]_vars

SharedBookNext ==
    \E t \in BookThreads :
       \/ AddOrderCheck(t)
       \/ AddOrderFindMatches(t)
       \/ AddOrderInsert(t)
       \/ AddOrderToPriceLevel(t)
       \/ CancelOrderRemove(t)
       \/ CancelOrderFromPriceLevel(t)

SharedBookSpec == Init /\ [][SharedBookNext]_vars

EngineNext == EngineAddLimitOrder \/ EngineAddMarketOrder

\* engine.rs is built with overflow checks (dev, test) or without (release)
EngineInit ==
    /\ InitBooks /\ InitComponents
    /\ overflow_checks \in BOOLEAN /\ priceless_limit_matches = FALSE /\ runtime_threads = 1
    /\ order_updates_capacity = None /\ max_samples = MaxCapacity

EngineSpec == EngineInit /\ [][EngineNext]_vars

DispatcherNext == SubmitOrder \/ SubmitDuplicateOrder \/ CancelOrderById

\* the Order type is not among the sources: a Limit order without a price
\* either matches nothing or matches like a market order
DispatcherInit ==
    /\ InitBooks /\ InitComponents
    /\ overflow_checks = TRUE /\ priceless_limit_matches \in BOOLEAN /\ runtime_threads = 1
    /\ order_updates_capacity = None /\ max_samples = MaxCapacity

DispatcherSpec == DispatcherInit /\ [][DispatcherNext]_vars

ChannelNext ==
    \/ \E c \in Callers : Call(c)
    \/ WorkerStart
    \/ WorkerProcess
    \/ \E c \in Callers : Receive(c)

ChannelInit ==
    /\ InitBooks /\ InitComponents
    /\ overflow_checks = TRUE /\ priceless_limit_matches = FALSE
    /\ runtime_threads \in RuntimeThreads
    /\ order_updates_capacity = None /\ max_samples = MaxCapacity

ChannelSpec == ChannelInit /\ [][ChannelNext]_vars

\* the runtime polls a task that is ready when a thread is free, and a recv()
\* returns when its channel has a message
ChannelFairness ==
    /\ WF_vars(WorkerStart)
    /\ WF_vars(WorkerProcess)
    /\ \A c \in Callers : WF_vars(Receive(c))

ChannelLiveSpec == ChannelSpec /\ ChannelFairness

\* the callers and the worker with the worker's turn in its two steps
SerialNext ==
    \/ \E c \in Callers : Call(c)
    \/ WorkerStart
    \/ \E w \in Workers : RunMatchingLoopRecv(w)
    \/ \E w \in Workers : RunMatchingLoopSend(w)
    \/ \E c \in Callers : Receive(c)

\* a runtime with a thread for every task: both callers can be blocked in recv()
\* while the worker runs (with fewer threads the same steps are taken, fewer at a time)
SerialInit ==
    /\ InitBooks /\ InitComponents
    /\ overflow_checks = TRUE /\ priceless_limit_matches = FALSE
    /\ runtime_threads = Cardinality(Callers) + Cardinality(Workers)
    /\ order_updates_capacity = None /\ max_samples = MaxCapacity

SerialSpec == SerialInit /\ [][SerialNext]_vars

PositionNext == UpdateFromFill

\* Position::new, then fills
PositionSpec == Init /\ [][PositionNext]_vars

PortfolioNext == TakeExecutionReport \/ MarketDataTrade \/ MarketDataBookSnapshot

\* create_portfolio("default", 100000), then execution reports and market events
PortfolioSpec == Init /\ [][PortfolioNext]_vars

TradingNext == TradingSubmitOrder \/ TradingCancelOrder \/ MarketTrade \/ ConsumeReport

\* TradingService::new takes the Sender it is given: of an unbounded channel
\* (as main_new.rs builds it) or of a bounded one
TradingInit ==
    /\ InitBooks /\ InitComponents
    /\ overflow_checks = TRUE /\ priceless_limit_matches = FALSE /\ runtime_threads = 1
    /\ order_updates_capacity \in {None, Some(1)} /\ max_samples = MaxCapacity

TradingSpec == TradingInit /\ [][TradingNext]_vars

PaperTradingNext == TradingSubmitOrder \/ MarketTrade

\* TradingService as main_new.rs builds it (unbounded channel), taking orders
\* and market events while nobody cancels and the reports wait in the channel
PaperTradingSpec == Init /\ [][PaperTradingNext]_vars

LifecycleNext == StartService \/ SpawnTasks \/ StopService

\* the three services as constructed, then start() and stop() calls from two
\* threads
LifecycleSpec == Init /\ [][LifecycleNext]_vars

PortfolioServiceNext ==
    \/ StartPortfolioService \/ SpawnTasks \/ StopPortfolioService
    \/ CreatePortfolio \/ SendExecutionReport
    \/ ExecutionReportsLoop \/ ExecutionReportsLoopExit

\* PortfolioService::new, then start(), stop(), create_portfolio and reports
\* sent on its channel
PortfolioServiceSpec == Init /\ [][PortfolioServiceNext]_vars

OrderIdNext == NewOrderId

\* COUNTER = 1 as the program starts, then OrderId::new from two threads
OrderIdSpec == Init /\ [][OrderIdNext]_vars

LatencyNext == RecordLatency \/ GetDistribution \/ ResetLatencies

\* LatencyTracker::new(max_samples) with any capacity
LatencyInit ==
    /\ InitBooks /\ InitComponents
    /\ overflow_checks = TRUE /\ priceless_limit_matches = FALSE /\ runtime_threads = 1
    /\ order_updates_capacity = None
    /\ max_samples \in 0..MaxCapacity

LatencySpec == LatencyInit /\ [][LatencyNext]_vars

OrderNext == OrderNew \/ OrderFill

OrderSpec == Init /\ [][OrderNext]_vars

SymbolNext == MatchingEngineSubmit \/ TradingEngineProcess

\* MatchingEngine::new (no book) and TradingEngine::new (three books), then
\* orders for any symbol
SymbolSpec == Init /\ [][SymbolNext]_vars

\* ------------------------------------------------------------------ properties
\* what the last book.rs call was given and the book it started from
Before == unwrap(last_call.before)
Incoming == unwrap(last_call.order)
OppositeBefore == IF Incoming.side = "Buy" THEN Before.asks ELSE Before.bids
OppositeNow == IF Incoming.side = "Buy" THEN asks ELSE bids

LevelOrders(side_book, key) ==
    IF key \in DOMAIN side_book THEN side_book[key].orders ELSE <<>>

\* the unfilled quantity an order id still has in a queue (0 when it is not there)
RECURSIVE RemainingOf(_, _)
RemainingOf(level_orders, order_id) ==
    IF level_orders = <<>> THEN 0
    ELSE (IF Head(level_orders).id = order_id THEN remaining_quantity(Head(level_orders))
          ELSE 0)
         + RemainingOf(Tail(level_orders), order_id)

IsQueued(side_book, order_id) ==
    \E key \in DOMAIN side_book :
        \E i \in 1..Len(side_book[key].orders) : side_book[key].orders[i].id = order_id

\* C1: after every add_order or cancel_order of the book.rs book, if both sides
\* are non-empty then the best bid is strictly below the best ask.
C1_NoCrossedBook ==
    (is_some(get_best_bid_price) /\ is_some(get_best_ask_price))
        => unwrap(get_best_bid_price) < unwrap(get_best_ask_price)

\* C2: conservation of quantity: the filled quantity of every order get_order
\* returns equals the sum of last_quantity over the reports emitted for it.
C2_ConservationOfQuantity ==
    \A order_id \in DOMAIN orders :
        unwrap(get_order(order_id)).filled_quantity = reported[order_id]

\* C3: price-time priority: with A queued before B at one price, an incoming
\* order takes B's quantity only after all of A's remaining quantity, and what
\* it takes is gone from the level afterwards (A then B of 1 each, an incoming 1
\* fills A and leaves B alone in the level).
C3_PriceTimePriority ==
    last_call.op = "add_order" =>
        \A key \in DOMAIN OppositeBefore :
            LET queue == OppositeBefore[key].orders
                left == LevelOrders(OppositeNow, key)
            IN \A i, j \in 1..Len(queue) :
                 i < j =>
                   LET A == queue[i]
                       B == queue[j]
                       fromA == MatchedAgainst(last_call.matches, A.id)
                       fromB == MatchedAgainst(last_call.matches, B.id)
                   IN /\ fromB > 0 => fromA = remaining_quantity(A)
                      /\ RemainingOf(left, A.id) = remaining_quantity(A) - fromA
                      /\ RemainingOf(left, B.id) = remaining_quantity(B) - fromB

\* what the last engine.rs call was given and the book it started from
EngineIncoming == engine_call.order
EngineOppositeBefore ==
    IF EngineIncoming.side = "Buy" THEN engine_call.before.asks ELSE engine_call.before.bids
EngineOppositeNow == IF EngineIncoming.side = "Buy" THEN engine_asks ELSE engine_bids
EngineOwnBefore ==
    IF EngineIncoming.side = "Buy" THEN engine_call.before.bids ELSE engine_call.before.asks
EngineOwnNow == IF EngineIncoming.side = "Buy" THEN engine_bids ELSE engine_asks

\* C4: resting-price rule: every match either book produces carries the price
\* of the resting order (its price level) it was matched against.
C4_RestingPriceRule ==
    /\ last_call.op = "add_order" =>
         \A i \in 1..Len(last_call.matches) :
            LET match == last_call.matches[i]
            IN \E key \in DOMAIN OppositeBefore :
                 \E k \in 1..Len(OppositeBefore[key].orders) :
                    LET maker == OppositeBefore[key].orders[k]
                    IN /\ maker.id = match.maker_order_id
                       /\ match.price = unwrap(maker.price)
                       /\ match.price = OppositeBefore[key].price
    /\ engine_call.op = "add_order" =>
         \A i \in 1..Len(engine_call.matches) :
            LET price == unwrap(engine_call.matches[i].price)
            IN /\ price \in DOMAIN EngineOppositeBefore
               /\ EngineOppositeBefore[price].price = price

\* C5: a market order submitted to the book.rs book while the opposite side is
\* empty yields exactly one report, Rejected, cumulative 0, leaves = quantity,
\* and leaves price levels and order index as they were.
C5_MarketIntoEmptySideRejected ==
    (/\ last_call.op = "add_order"
     /\ Incoming.order_type = "Market"
     /\ DOMAIN OppositeBefore = {})
        => /\ Len(last_call.reports) = 1
           /\ last_call.reports[1].order_status = "Rejected"
           /\ last_call.reports[1].cumulative_quantity = 0
           /\ last_call.reports[1].leaves_quantity = Incoming.quantity
           /\ bids = Before.bids
           /\ asks = Before.asks
           /\ orders = Before.orders

Crosses(order, price) ==
    IF order.side = "Buy" THEN unwrap(order.price) >= price ELSE unwrap(order.price) <= price

RECURSIVE QuantityAt(_, _)
QuantityAt(side_book, keys) ==
    IF keys = {} THEN 0
    ELSE LET key == SetMin(keys)
         IN side_book[key].quantity + QuantityAt(side_book, keys \ {key})

CrossingQuantity(side_book, order) ==
    QuantityAt(side_book, {key \in DOMAIN side_book : Crosses(order, key)})

RECURSIVE FilledTotal(_)
FilledTotal(matches) ==
    IF matches = <<>> THEN 0 ELSE Head(matches).filled_quantity + FilledTotal(Tail(matches))

\* C7: walking the book: a limit order added to the engine.rs book consumes the
\* opposite levels best first, each at the level's own price, for a total of
\* min(order quantity, quantity resting at crossing prices), and the remainder
\* rests at the order's limit price on its own side.
C7_WalkingTheBook ==
    (engine_call.op = "add_order" /\ EngineIncoming.order_type = "Limit")
        => LET matches == engine_call.matches
               matched == FilledTotal(matches)
               remainder == EngineIncoming.quantity - matched
               limit == unwrap(EngineIncoming.price)
           IN /\ ~engine_call.panicked
              /\ matched = Min(EngineIncoming.quantity,
                               CrossingQuantity(EngineOppositeBefore, EngineIncoming))
              /\ \A i \in 1..Len(matches) :
                    /\ unwrap(matches[i].price) \in DOMAIN EngineOppositeBefore
                    /\ Crosses(EngineIncoming, unwrap(matches[i].price))
              /\ \A i, j \in 1..Len(matches) :
                    i < j => IF EngineIncoming.side = "Buy"
                             THEN unwrap(matches[i].price) <= unwrap(matches[j].price)
                             ELSE unwrap(matches[i].price) >= unwrap(matches[j].price)
              /\ remainder > 0 =>
                    /\ limit \in DOMAIN EngineOwnNow
                    /\ EngineOwnNow[limit].quantity =
                         remainder + (IF limit \in DOMAIN EngineOwnBefore
                                      THEN EngineOwnBefore[limit].quantity ELSE 0)
                    /\ EngineIncoming.id \in DOMAIN engine_orders
                    /\ remaining_quantity(engine_orders[EngineIncoming.id]) = remainder
              /\ remainder = 0 => EngineOwnNow = EngineOwnBefore

\* the single order resting at the best opposite level of the engine.rs book,
\* when the incoming order crosses it with exactly its remaining quantity
ExactlyMatchedMakers ==
    LET best == IF EngineIncoming.side = "Buy" THEN SetMin(DOMAIN EngineOppositeBefore)
                ELSE SetMax(DOMAIN EngineOppositeBefore)
        level == EngineOppositeBefore[best]
        resting == {order_id \in DOMAIN engine_call.before.orders :
                      /\ engine_call.before.orders[order_id].side # EngineIncoming.side
                      /\ engine_call.before.orders[order_id].price = Some(best)}
    IN IF /\ DOMAIN EngineOppositeBefore # {}
          /\ level.order_count = 1
          /\ Cardinality(resting) = 1
          /\ level.quantity = EngineIncoming.quantity
          /\ \A order_id \in resting :
                remaining_quantity(engine_call.before.orders[order_id]) = level.quantity
          /\ (is_some(EngineIncoming.price) => Crosses(EngineIncoming, best))
       THEN resting ELSE {}

\* C8: exact match of equal quantities in the engine.rs book: the incoming
\* order and the resting order (as the orders index records it) are both Filled
\* after that add_order, and the price level is gone.
C8_ExactMatchFillsBoth ==
    engine_call.op = "add_order" =>
        \A maker_id \in ExactlyMatchedMakers :
            /\ engine_call.matches # <<>>
            /\ engine_call.remaining_order.status = "Filled"
            /\ maker_id \in DOMAIN engine_orders
            /\ engine_orders[maker_id].status = "Filled"
            /\ unwrap(engine_call.before.orders[maker_id].price) \notin DOMAIN EngineOppositeNow

\* C9: cancel after a partial fill in the book.rs book: the Canceled report
\* carries the total of the order's prior fills as cumulative quantity, and the
\* order is in the book no longer (neither index nor any queue).
C9_CancelAfterPartialFill ==
    (/\ last_call.op = "cancel_order"
     /\ is_some(last_call.reports)
     /\ maker_matched[last_call.order_id] > 0)
        => /\ unwrap(last_call.reports).cumulative_quantity =
                maker_matched[last_call.order_id] + reported[last_call.order_id]
           /\ last_call.order_id \notin DOMAIN orders
           /\ ~IsQueued(bids, last_call.order_id)
           /\ ~IsQueued(asks, last_call.order_id)

\* the add_order call a cancel_order call directly followed and undid
Undone == unwrap(last_call.round_trip_of)

RestedInFullThenCancelled ==
    /\ last_call.op = "cancel_order"
    /\ is_some(last_call.round_trip_of)
    /\ Undone.order.order_type = "Limit"
    /\ Undone.matches = <<>>

\* C10: round trip in the book.rs book: a limit order that rested in full,
\* cancelled right away, is cancelled with its whole quantity and bids, asks
\* and order index are again what they were before the submit.
C10_SubmitCancelRoundTrip ==
    RestedInFullThenCancelled
        => /\ is_some(last_call.reports)
           /\ unwrap(last_call.reports).execution_type = "Canceled"
           /\ unwrap(last_call.reports).quantity = Undone.order.quantity
           /\ unwrap(last_call.reports).cumulative_quantity = 0
           /\ bids = Undone.before.bids
           /\ asks = Undone.before.asks
           /\ orders = Undone.before.orders

\* the round trip of an order that had opened a price level of its own in a
\* book that held other orders
C10_Witness ==
    /\ RestedInFullThenCancelled
    /\ is_some(last_call.reports)
    /\ Undone.before.orders # EmptyMap
    /\ to_f64(unwrap(Undone.order.price)) \notin
         DOMAIN (IF Undone.order.side = "Buy" THEN Undone.before.bids ELSE Undone.before.asks)

\* what the last MatchingEngine call was given and the book it started from
Dispatched == unwrap(dispatch.order)
DispatchBefore == unwrap(dispatch.before)

BookUnchangedByDispatch ==
    /\ bids = DispatchBefore.bids
    /\ asks = DispatchBefore.asks
    /\ orders = DispatchBefore.orders

\* C11: MatchingEngine.cancel_order of an id no book holds live returns Ok(None)
\* (no report, no error) and leaves the book as it was; a Canceled report comes
\* back only when a live order was removed.
C11_CancelUnknownReturnsNone ==
    dispatch.op = "cancel_order" =>
        LET was_live == /\ dispatch.order_id \in DOMAIN DispatchBefore.orders
                        /\ DispatchBefore.orders[dispatch.order_id].status
                             \in {"Pending", "PartiallyFilled"}
        IN /\ ~was_live => /\ dispatch.ok
                           /\ dispatch.value = None
                           /\ BookUnchangedByDispatch
           /\ (dispatch.ok /\ is_some(dispatch.value)) =>
                 /\ was_live
                 /\ unwrap(dispatch.value).execution_type = "Canceled"
                 /\ dispatch.order_id \notin DOMAIN orders

\* an order the spec calls invalid
IsInvalid(order) ==
    \/ order.quantity <= 0
    \/ order.order_type = "Limit" /\ ~is_some(order.price)

\* C12: submit_order of an invalid order (quantity zero or negative, Limit
\* without a price) returns Ok with a Rejected report and leaves price levels
\* and order index as they were.
C12_InvalidOrderRejected ==
    (dispatch.op = "submit_order" /\ IsInvalid(Dispatched))
        => /\ dispatch.ok
           /\ \E i \in 1..Len(dispatch.value) : dispatch.value[i].order_status = "Rejected"
           /\ BookUnchangedByDispatch

\* C13: submit_order of an order whose id is in the book already leaves the
\* original order, the order index and the price levels unchanged: no second
\* copy is rested.
C13_DuplicateSubmissionRejected ==
    (dispatch.op = "submit_order" /\ dispatch.order_id \in DOMAIN DispatchBefore.orders)
        => BookUnchangedByDispatch

\* C14: submit_order returns at least one execution report, for any order and
\* any book state.
C14_SubmitEmitsAReport ==
    dispatch.op = "submit_order" => (dispatch.ok /\ Len(dispatch.value) >= 1)

\* C15: every report the book.rs book emits (New, Fill, Canceled) has
\* cumulative_quantity + leaves_quantity = the quantity of the order it is for.
C15_ReportQuantitiesAddUp ==
    /\ (dispatch.op = "submit_order" /\ ~IsInvalid(Dispatched)) =>
          \A i \in 1..Len(dispatch.value) :
             dispatch.value[i].cumulative_quantity + dispatch.value[i].leaves_quantity
               = Dispatched.quantity
    /\ (dispatch.op = "cancel_order" /\ is_some(dispatch.value)) =>
          unwrap(dispatch.value).cumulative_quantity + unwrap(dispatch.value).leaves_quantity
            = Dispatched.quantity

\* C16: each caller of MatchingEngine receives the response the worker built
\* for its own message, under any interleaving of concurrent callers.
C16_OwnResponse ==
    \A c \in Callers :
        is_some(received[c]) => unwrap(received[c]).to_message = unwrap(request[c])

\* C17: a call that has sent its message eventually returns, with one runtime
\* thread or with several.
C17_DeliveredCommandCompletes ==
    \A c \in Callers : (caller_pc[c] = "waiting") ~> (caller_pc[c] = "idle")

\* C20: Position::update_from_fill follows the position rules, for every
\* starting position (q, a) and every fill (side, quantity > 0, price P):
\* a flat position opens at P; adding gives the quantity-weighted average
\* (|q| a + |d| P) / (|q| + |d|); a reduction or reversal realizes
\* min(|d|, |q|) (P - a) sign(q), and the average stays on a pure reduction,
\* is 0 when the position becomes flat and is P when it changes sign.
C20_PositionRules ==
    fill_call.op = "update_from_fill" =>
        LET q == fill_call.before.quantity
            a == fill_call.before.average_price
            P == fill_call.price
            d == IF fill_call.side = "Buy" THEN fill_call.quantity ELSE -fill_call.quantity
        IN /\ position.quantity = q + d
           /\ q = 0 =>
                /\ position.average_price = P
                /\ position.realized_pnl = fill_call.before.realized_pnl
           /\ (q # 0 /\ signum(q) = signum(d)) =>
                /\ position.average_price = (Abs(q) * a + Abs(d) * P) \div (Abs(q) + Abs(d))
                /\ position.realized_pnl = fill_call.before.realized_pnl
           /\ (q # 0 /\ signum(q) # signum(d)) =>
                /\ position.realized_pnl =
                     fill_call.before.realized_pnl + Min(Abs(d), Abs(q)) * (P - a) * signum(q)
                /\ Abs(d) < Abs(q) => position.average_price = a
                /\ Abs(d) = Abs(q) => position.average_price = 0
                /\ Abs(d) > Abs(q) => position.average_price = P

\* buy 1 @ 50000, buy 1 @ 52000 (average 51000), sell 1 @ 53000: quantity 1,
\* realized 2000
C20_Witness ==
    /\ fill_call.op = "update_from_fill"
    /\ fill_call.before.quantity = 2
    /\ fill_call.before.average_price = 51000
    /\ fill_call.side = "Sell" /\ fill_call.quantity = 1 /\ fill_call.price = 53000
    /\ position.quantity = 1
    /\ position.realized_pnl = 2000

\* C19: every Filled execution report PortfolioService applies leaves signed
\* quantity, average cost, realized PnL and cash as the position rules give
\* them: a flat position opens at P; adding gives (|q| a + |d| P) / (|q| + |d|)
\* for long and for short positions; a reduction or reversal realizes
\* min(|d|, |q|) (P - a) sign(q) and sets the average to P on reversal (0 when
\* flat); cash moves by -sign(d) |d| P.
C19_PortfolioPositionRules ==
    (execution_call.op = "execution_report" /\ execution_call.execution.status = "Filled") =>
        LET before == execution_call.before
            q == before.position.quantity
            a == before.position.average_cost
            P == unwrap(execution_call.execution.price)
            d == IF execution_call.execution.side = "Buy"
                 THEN execution_call.execution.quantity
                 ELSE -execution_call.execution.quantity
            pos == portfolio.position
        IN /\ pos.quantity = q + d
           /\ portfolio.cash_balance = before.cash_balance - signum(d) * Abs(d) * P
           /\ q = 0 =>
                /\ pos.average_cost = P
                /\ portfolio.realized_pnl = before.realized_pnl
           /\ (q # 0 /\ signum(q) = signum(d)) =>
                /\ pos.average_cost = (Abs(q) * a + Abs(d) * P) \div (Abs(q) + Abs(d))
                /\ portfolio.realized_pnl = before.realized_pnl
           /\ (q # 0 /\ signum(q) # signum(d)) =>
                /\ portfolio.realized_pnl =
                     before.realized_pnl + Min(Abs(d), Abs(q)) * (P - a) * signum(q)
                /\ Abs(d) < Abs(q) => pos.average_cost = a
                /\ Abs(d) = Abs(q) => pos.average_cost = 0
                /\ Abs(d) > Abs(q) => pos.average_cost = P

\* C18: no execution report is dropped: every report TradingService's
\* submit_order or cancel_order has produced has been put on the output
\* channel, so the reports received so far followed by those still in the
\* channel are the reports produced, in order.
C18_NoReportDropped ==
    reports_returned = reports_consumed \o order_updates

\* ------------------------------------------------------------------ properties (market events)
\* the last event PortfolioService handled was a mark of the symbol
Marked == market_call.op = "market_data"

\* C21: PnL identity: once the held symbol has been marked after a history of
\* fills, realized PnL + unrealized PnL of the portfolio equals
\* (cash now - initial cash) + signed quantity * mark price.
C21_PnlIdentity ==
    Marked =>
        portfolio.realized_pnl + portfolio.unrealized_pnl =
            (portfolio.cash_balance - InitialCash)
            + portfolio.position.quantity * market_call.price

\* C22: after every mark price update the portfolio's total equity is its
\* cash balance plus signed quantity * mark price, a short position
\* contributing its negative value.
C22_TotalEquity ==
    Marked =>
        portfolio.total_equity =
            portfolio.cash_balance + portfolio.position.quantity * market_call.price

\* C23: after every mark price update the position's unrealized PnL is
\* q * (mark - a) for its signed quantity q and average cost a, and so 0 once
\* the position is flat.
C23_UnrealizedRecomputed ==
    Marked =>
        portfolio.position.unrealized_pnl =
            portfolio.position.quantity
            * (market_call.price - portfolio.position.average_cost)

\* C24: a mark price update is idempotent: when the same mark price is
\* applied twice in a row, the second application leaves the position
\* (quantity, average cost, realized and unrealized PnL, market value) and the
\* portfolio's totals exactly as the first left them.
C24_MarkIdempotent ==
    (Marked /\ market_call.repeated) => portfolio = unwrap(market_call.before)

\* a long position of 1 bought at 50000, marked at 52000 twice in a row:
\* unrealized 2000 and equity 102000 after the first mark and after the second
C24_Witness ==
    /\ Marked /\ market_call.repeated
    /\ market_call.price = 52000
    /\ portfolio.position.quantity = 1
    /\ portfolio.position.unrealized_pnl = 2000
    /\ portfolio.total_equity = 102000

\* ------------------------------------------------------------------ properties (PortfolioService)
\* C25: once PortfolioService is started and create_portfolio has made a
\* portfolio for an account, a Filled Buy report of quantity q sent on the
\* execution report channel is applied to that account: when the service has
\* taken it, get_position(account, symbol) is a position of quantity q, Long.
C25_ReportAppliedToAccount ==
    \A account_id \in Accounts :
        ( /\ Len(reports_sent) = 1
          /\ reports_sent[1].running
          /\ account_id \in reports_sent[1].created
          /\ reports_sent[1].execution.status = "Filled"
          /\ reports_sent[1].execution.side = "Buy"
          /\ execution_reports_rx = <<>> )
        => /\ is_some(get_position(account_id))
           /\ unwrap(get_position(account_id)).quantity = reports_sent[1].execution.quantity
           /\ unwrap(get_position(account_id)).side = "Long"

\* ------------------------------------------------------------------ properties (paper trading)
\* the last TradingService call was submit_order of a Market order with a
\* positive quantity, made while a current price was known
MarketOrderSubmitted ==
    /\ trading_call.op = "submit_order"
    /\ unwrap(trading_call.order).order_type = "Market"
    /\ unwrap(trading_call.order).quantity > 0
    /\ is_some(trading_call.price_before)

\* the position quantity, 0 while the symbol has no position
PositionQuantity(pos) == IF is_some(pos) THEN unwrap(pos).quantity ELSE 0

\* C26: a Market order submitted to TradingService while a current price is
\* known is filled in full at once: the call returns a report with status
\* Filled and the order's quantity, the stored order is Filled with
\* filled_quantity = quantity, and the position quantity has moved by the signed
\* order quantity.
C26_MarketOrderFilledInFull ==
    MarketOrderSubmitted =>
        LET order == unwrap(trading_call.order)
            signed == IF order.side = "Buy" THEN order.quantity ELSE -order.quantity
        IN /\ trading_call.ok
           /\ is_some(trading_call.report)
           /\ unwrap(trading_call.report).status = "Filled"
           /\ unwrap(trading_call.report).quantity = order.quantity
           /\ order.id \in DOMAIN trading_orders
           /\ trading_orders[order.id].status = "Filled"
           /\ trading_orders[order.id].filled_quantity = order.quantity
           /\ PositionQuantity(trading_position) =
                  PositionQuantity(trading_call.position_before) + signed

\* test_paper_trading's order after an earlier buy: Market Sell 2 at a known
\* price against a long position of 1 leaves the position short 1
C26_Witness ==
    /\ MarketOrderSubmitted
    /\ unwrap(trading_call.order).side = "Sell"
    /\ unwrap(trading_call.order).quantity = 2
    /\ PositionQuantity(trading_call.position_before) = 1
    /\ PositionQuantity(trading_position) = -1
    /\ unwrap(trading_call.report).status = "Filled"

\* ------------------------------------------------------------------ properties (OrderId)
\* the calls made so far: thread and position in the thread's sequence
IdCalls == {<<t, i>> : t \in IdThreads, i \in 1..MaxIds}

Minted(call) == call[2] <= Len(ids_minted[call[1]])

\* C27: OrderIds are unique and monotonic: any two OrderId::new calls, on the
\* same thread or on different ones, returned distinct ids, and the ids
\* returned to one thread strictly increase.
C27_OrderIdsUniqueAndMonotonic ==
    /\ \A a, b \in IdCalls :
          (Minted(a) /\ Minted(b) /\ a # b) =>
              ids_minted[a[1]][a[2]] # ids_minted[b[1]][b[2]]
    /\ \A t \in IdThreads : \A i, j \in 1..Len(ids_minted[t]) :
          i < j => ids_minted[t][i] < ids_minted[t][j]

\* two threads taking turns: each has two ids, interleaved
C27_Witness ==
    /\ ids_minted[1] = <<1, 3>>
    /\ ids_minted[2] = <<2, 4>>

\* ------------------------------------------------------------------ properties (LatencyTracker)
\* the element at index k (from 0) of the samples in ascending order, said
\* without sorting: the value with at most k samples below it and more than k
\* samples at or below it
Ascending(stored, k) ==
    CHOOSE x \in {stored[i] : i \in 1..Len(stored)} :
        /\ Cardinality({i \in 1..Len(stored) : stored[i] < x}) <= k
        /\ Cardinality({i \in 1..Len(stored) : stored[i] <= x}) > k

\* sample counts up to twice the count at which the four indices all differ
SampleCounts == 1..2000

\* C28: for a non-empty LatencyTracker get_distribution reports sample_count =
\* the number of stored samples, min and max = the smallest and largest of
\* them, and p50, p95, p99, p999 = the element of the ascending samples at index
\* floor(count * p), an index always within bounds, so that
\* min <= p50 <= p95 <= p99 <= p999 <= max.
C28_DistributionOfSamples ==
    (is_some(distribution) /\ unwrap(distribution).of # <<>>) =>
        LET stored == unwrap(distribution).of
            dist == unwrap(distribution).result
            count == Len(stored)
            values == {stored[i] : i \in 1..count}
            i50 == (count * 50) \div 100
            i95 == (count * 95) \div 100
            i99 == (count * 99) \div 100
            i999 == (count * 999) \div 1000
        IN /\ dist.sample_count = count
           /\ dist.min = SetMin(values)
           /\ dist.max = SetMax(values)
           /\ i50 < count /\ i95 < count /\ i99 < count /\ i999 < count
           /\ dist.p50 = Ascending(stored, i50)
           /\ dist.p95 = Ascending(stored, i95)
           /\ dist.p99 = Ascending(stored, i99)
           /\ dist.p999 = Ascending(stored, i999)
           /\ dist.min <= dist.p50 /\ dist.p50 <= dist.p95 /\ dist.p95 <= dist.p99
           /\ dist.p99 <= dist.p999 /\ dist.p999 <= dist.max
           /\ \A len \in SampleCounts :
                 /\ (len * 50) \div 100 <= (len * 95) \div 100
                 /\ (len * 95) \div 100 <= (len * 99) \div 100
                 /\ (len * 99) \div 100 <= (len * 999) \div 1000
                 /\ (len * 999) \div 1000 < len

\* three samples recorded out of order: 3000, 1000, 2000 give min 1000,
\* p50 2000 (index 1), p95 = p99 = p999 = max = 3000 (index 2)
C28_Witness ==
    /\ is_some(distribution)
    /\ unwrap(distribution).of = <<3000, 1000, 2000>>
    /\ unwrap(distribution).result.sample_count = 3
    /\ unwrap(distribution).result.min = 1000
    /\ unwrap(distribution).result.p50 = 2000
    /\ unwrap(distribution).result.p999 = 3000
    /\ unwrap(distribution).result.max = 3000

\* ------------------------------------------------------------------ properties (symbols)
\* the books of the engine the last call entered
BooksEntered ==
    IF symbol_call.op = "MatchingEngine::submit_order" THEN orderbooks ELSE order_books

\* C29: unknown symbols are auto-created at both entry points: an order for a
\* symbol without a book, submitted through MatchingEngine.submit_order or
\* TradingEngine.process_order, is not refused; a new empty book is created
\* for the symbol and the order is processed in it.
C29_UnknownSymbolAutoCreated ==
    (symbol_call.op # "none" /\ ~symbol_call.known) =>
        /\ symbol_call.ok
        /\ symbol_call.symbol \in DOMAIN BooksEntered
        /\ BooksEntered[symbol_call.symbol] = <<symbol_call.order_id>>

\* ------------------------------------------------------------------ properties (start and stop)
\* start() calls on the service that are between compare_exchange and spawn
Spawning(service) ==
    {c \in Starters : start_pc[c] = "spawning" /\ start_call[c].service = service}

\* C30: start() on an engine or service that is already running returns an
\* error, leaves it running and spawns no task; start() succeeds only when the
\* running flag was false, so that of concurrent start() calls at most one
\* succeeds (one more for each stop() made).
C30_StartOnlyWhenStopped ==
    /\ \A c \in Starters :
          start_call[c].op = "start" =>
              /\ (start_call[c].result = "Err") <=> start_call[c].was_running
              /\ start_call[c].result = "Err" => start_call[c].running_after
    /\ \A service \in Services :
          /\ tasks_spawned[service] =
                 tasks_per_start(service)
                 * (starts_won[service] - Cardinality(Spawning(service)))
          /\ starts_won[service] <= stops_made[service] + 1

\* test_engine_lifecycle with the second start() on another thread: one
\* start() of OrderBookEngine returned Ok, the other Err, and the engine runs
\* with the one metrics task
C30_Witness ==
    /\ start_call[1].service = "OrderBookEngine" /\ start_call[1].result = "Ok"
    /\ start_call[2].service = "OrderBookEngine" /\ start_call[2].result = "Err"
    /\ is_running["OrderBookEngine"]
    /\ stops_made["OrderBookEngine"] = 0
    /\ tasks_spawned["OrderBookEngine"] = 1

\* C31: after every add_order of the engine.rs book returns, if both sides are
\* non-empty the best bid is strictly below the best ask; and the matching loop
\* terminates: every turn of it takes a positive quantity, and it takes no more
\* turns than the opposite side had price levels.
C31_EngineNoCrossedBook ==
    /\ (is_some(get_best_bid) /\ is_some(get_best_ask))
         => unwrap(get_best_bid) < unwrap(get_best_ask)
    /\ (engine_call.op = "add_order" /\ ~engine_call.panicked)
         => /\ \A i \in 1..Len(engine_call.matches) :
                 engine_call.matches[i].filled_quantity > 0
            /\ Len(engine_call.matches) <= Cardinality(DOMAIN EngineOppositeBefore)

\* a limit order took liquidity, had quantity left over and rested, and the
\* opposite side still has levels beyond its price
C31_Witness ==
    /\ engine_call.op = "add_order"
    /\ ~engine_call.panicked
    /\ EngineIncoming.order_type = "Limit"
    /\ Len(engine_call.matches) >= 1
    /\ EngineIncoming.id \in DOMAIN engine_orders
    /\ is_some(get_best_bid) /\ is_some(get_best_ask)

\* the places of the book.rs price levels where an order id is queued
QueuePlaces(order_id) ==
    {<<side, key, i>> \in Sides \X (DOMAIN bids \cup DOMAIN asks) \X (1..MaxOrders) :
        LET side_book == IF side = "Buy" THEN bids ELSE asks
        IN /\ key \in DOMAIN side_book
           /\ i <= Len(side_book[key].orders)
           /\ side_book[key].orders[i].id = order_id}

\* C32: index consistency of the book.rs book: every order of the orders map is
\* queued in exactly one price level, on its own side and at its own price, and
\* every queued order is in the orders map.
C32_IndexConsistency ==
    /\ \A order_id \in DOMAIN orders :
          /\ Cardinality(QueuePlaces(order_id)) = 1
          /\ \A place \in QueuePlaces(order_id) :
                LET side_book == IF place[1] = "Buy" THEN bids ELSE asks
                IN /\ place[1] = orders[order_id].side
                   /\ is_some(orders[order_id].price)
                   /\ side_book[place[2]].price = unwrap(orders[order_id].price)
    /\ \A order_id \in OrderIds : QueuePlaces(order_id) # {} => order_id \in DOMAIN orders

\* the sum of the remaining quantities of the orders of a queue
RECURSIVE QueueRemaining(_)
QueueRemaining(level_orders) ==
    IF level_orders = <<>> THEN 0
    ELSE remaining_quantity(Head(level_orders)) + QueueRemaining(Tail(level_orders))

\* C33: level totals of the book.rs book: every price level's quantity is the sum
\* of the remaining quantities of the orders in its queue.
C33_LevelTotals ==
    /\ \A key \in DOMAIN bids : bids[key].quantity = QueueRemaining(bids[key].orders)
    /\ \A key \in DOMAIN asks : asks[key].quantity = QueueRemaining(asks[key].orders)

\* a cancel took one order of three out of a level, and two are still queued there
C33_Witness ==
    /\ last_call.op = "cancel_order"
    /\ is_some(last_call.reports)
    /\ \E key \in DOMAIN bids :
          /\ Len(bids[key].orders) = 2
          /\ unwrap(last_call.reports).side = "Buy"
          /\ unwrap(last_call.reports).price = Some(bids[key].price)
          /\ bids[key].quantity >= 3

\* the commands of a sequence of messages that change a book
Mutating(messages) ==
    SelectSeq(messages, LAMBDA m : m.message \in {"NewOrder", "CancelOrder"})

IsPrefix(s, t) == Len(s) <= Len(t) /\ SubSeq(t, 1, Len(s)) = s

\* C34: the commands sent through MatchingEngine are applied one at a time and
\* in the order they were enqueued: at no time are two of them in process, and
\* the new-order and cancel commands applied so far are the first of those
\* enqueued, in that order.
C34_CommandsSerialized ==
    /\ Cardinality({w \in Workers : is_some(processing[w])}) <= 1
    /\ IsPrefix(Mutating(applied), Mutating(enqueued))

\* the worker holds the new order of one caller while a command of the other
\* caller, enqueued after it, waits in the channel
C34_Witness ==
    \E w \in Workers :
       /\ is_some(processing[w])
       /\ unwrap(processing[w]).message = "NewOrder"
       /\ Mutating(message_channel) # <<>>
       /\ Head(message_channel).from # unwrap(processing[w]).from

\* C35: the sequence number of the book.rs book never decreases, and every
\* command that changes the book (its price levels or its order index) leaves
\* it strictly larger than it found it.
C35_SequenceAdvances ==
    [][/\ sequence' >= sequence
       /\ (<<bids, asks, orders>>' # <<bids, asks, orders>>) => sequence' > sequence]_vars

\* add_order run from its first statement to its last with no other thread in
\* between, on a book given as a record: the book and the reports it leaves
add_order_alone(book, order) ==
    LET opposite == IF order.side = "Buy" THEN book.asks ELSE book.bids
        best == IF DOMAIN opposite = {} THEN None
                ELSE Some(IF order.side = "Buy" THEN SetMin(DOMAIN opposite)
                          ELSE SetMax(DOMAIN opposite))
        can_match_immediately ==
            IF is_some(best) THEN can_match(order, from_f64_retain(unwrap(best))) ELSE FALSE
        matches == IF can_match_immediately
                   THEN find_matches_from(order, opposite, DOMAIN opposite,
                                          remaining_quantity(order))
                   ELSE <<>>
        fill_reports == [i \in 1..Len(matches) |-> create_execution_report(matches[i], "Fill")]
        rests == ~is_fully_filled(order)
    IN [book |-> [bids |-> IF rests /\ order.side = "Buy"
                           THEN add_order_to_price_level(book.bids, order) ELSE book.bids,
                  asks |-> IF rests /\ order.side = "Sell"
                           THEN add_order_to_price_level(book.asks, order) ELSE book.asks,
                  orders |-> IF rests THEN MapPut(book.orders, order.id, order)
                             ELSE book.orders],
        reports |-> IF rests THEN Append(fill_reports, new_order_report(order))
                    ELSE fill_reports]

\* cancel_order run alone, likewise
cancel_order_alone(book, order_id) ==
    IF order_id \in DOMAIN book.orders
    THEN LET order == book.orders[order_id]
         IN [book |-> [bids |-> IF order.side = "Buy"
                                THEN remove_order_from_price_level(book.bids, order)
                                ELSE book.bids,
                       asks |-> IF order.side = "Sell"
                                THEN remove_order_from_price_level(book.asks, order)
                                ELSE book.asks,
                       orders |-> MapRemove(book.orders, order_id)],
             reports |-> <<cancel_report([order EXCEPT !.status = "Cancelled"])>>]
    ELSE [book |-> book, reports |-> <<>>]

\* the call of a thread, run alone on a book
CallAlone(book, t) ==
    IF thread_call[t].op = "add_order"
    THEN add_order_alone(book, unwrap(thread_call[t].order))
    ELSE cancel_order_alone(book, thread_call[t].order_id)

EmptyBook == [bids |-> EmptyMap, asks |-> EmptyMap, orders |-> EmptyMap]

\* the two calls made one after the other, first then second, give the reports
\* the threads got and the book that is there
SameAsInOrder(first, second) ==
    LET one == CallAlone(EmptyBook, first)
        two == CallAlone(one.book, second)
    IN /\ thread_call[first].reports = one.reports
       /\ thread_call[second].reports = two.reports
       /\ Snapshot = two.book

\* C36: concurrent add_order and cancel_order calls on one shared book.rs book are
\* linearizable: when two threads have each made a call on an empty book, the
\* reports they got and the bids, asks and order index left are those of the
\* two calls made one after the other, in one order or the other.
C36_Linearizable ==
    (\A t \in BookThreads : thread_pc[t] = "done")
        => \E first, second \in BookThreads :
              first # second /\ SameAsInOrder(first, second)

\* C37: a submit_order of TradingService that returns an error leaves the
\* service as it was: the orders map, the position, the trades and the report
\* channel are unchanged by it, and no report is produced.
C37_RejectedSubmitChangesNothing ==
    [][(trading_next_id' # trading_next_id /\ ~trading_call'.ok)
          => UNCHANGED <<trading_orders, trading_position, trading_trades, order_updates,
                         reports_returned>>]_vars

\* C38: after any sequence of fills of an order, 0 <= filled quantity <= quantity,
\* and the status is Filled exactly when the filled quantity is the quantity,
\* Pending exactly when it is 0, PartiallyFilled exactly when it is in between.
C38_FilledQuantityAndStatus ==
    is_some(typed_order) =>
        LET order == unwrap(typed_order)
            filled == Order_filled_quantity(order)
        IN /\ 0 <= filled /\ filled <= order.initial_quantity
           /\ order.status = "Filled" <=> filled = order.initial_quantity
           /\ order.status = "Pending" <=> filled = 0
           /\ order.status = "PartiallyFilled" <=> (0 < filled /\ filled < order.initial_quantity)

\* C39: the latency tracker is a window of at most N samples, for every capacity
\* N it is created with: it never holds more samples than N, nor more than
\* were recorded.
C39_BoundedWindow ==
    /\ Len(samples) <= max_samples
    /\ Len(samples) <= records_made

\* the orders the engine.rs book has rested on a side at a price that still have
\* unfilled quantity, when the quantity taken from the level so far is taken
\* from them in the order they arrived
RECURSIVE UnfilledFrom(_, _, _, _)
UnfilledFrom(order_id, taken, side, price) ==
    IF order_id >= engine_next_id THEN 0
    ELSE IF /\ order_id \in DOMAIN engine_orders
            /\ engine_orders[order_id].side = side
            /\ engine_orders[order_id].price = Some(price)
         THEN LET rested == remaining_quantity(engine_orders[order_id])
              IN IF taken >= rested
                 THEN UnfilledFrom(order_id + 1, taken - rested, side, price)
                 ELSE 1 + UnfilledFrom(order_id + 1, 0, side, price)
         ELSE UnfilledFrom(order_id + 1, taken, side, price)

RECURSIVE RestedQuantity(_, _, _)
RestedQuantity(order_id, side, price) ==
    IF order_id >= engine_next_id THEN 0
    ELSE (IF /\ order_id \in DOMAIN engine_orders
             /\ engine_orders[order_id].side = side
             /\ engine_orders[order_id].price = Some(price)
          THEN remaining_quantity(engine_orders[order_id]) ELSE 0)
         + RestedQuantity(order_id + 1, side, price)

UnfilledAt(side, price) ==
    LET side_book == IF side = "Buy" THEN engine_bids ELSE engine_asks
        left == IF price \in DOMAIN side_book THEN side_book[price].quantity ELSE 0
    IN UnfilledFrom(1, RestedQuantity(1, side, price) - left, side, price)

\* C40: in the engine.rs book no order_count is taken below zero (no call
\* panics on the decrement, no count has wrapped), and every level's
\* order_count is the number of resting orders with unfilled quantity at its price.
C40_OrderCount ==
    /\ ~engine_call.panicked
    /\ \A side \in Sides :
          LET side_book == IF side = "Buy" THEN engine_bids ELSE engine_asks
          IN \A price \in DOMAIN side_book :
                /\ side_book[price].order_count >= 0
                /\ side_book[price].order_count = UnfilledAt(side, price)

=============================================================================
